---- MODULE Spec2Model ----
(***************************************************************************)
(* A model of github.com/phogolabs/flaw: the Composite Error (Error), its  *)
(* value-receiver With* mutators, the package-level Wrap, the in-place     *)
(* Error.Wrap, the ErrorCollector and the composite rendering.             *)
(*                                                                         *)
(* Go values are modelled with their sharing: *Error values are addresses  *)
(* into heap, a []string is a slice header (arr, len) over a backing array *)
(* in arrays whose length is the slice's capacity, and append writes in    *)
(* place whenever the capacity allows it.                                  *)
(***************************************************************************)
EXTENDS Integers, Sequences, FiniteSets, TLC

(***************************************************************************)
(* Bounds of the model.                                                    *)
(***************************************************************************)
\* calls made by a client of the whole Error API
MaxCalls == 3
\* calls made by a client that builds detail lists
MaxChain == 5
\* calls made by a client that collects errors
MaxCollect == 4
\* calls made by a client before it shares the error it has built
MaxSetup == 3

VARIABLES
    heap,     \* the allocated Error structs; a *Error is an index into it
    arrays,   \* backing arrays of the details slices
    calls,    \* calls made so far
    limit,    \* the number of calls the client makes
    ret,      \* the last call: operation, receiver, arguments and result
    errs,     \* the client's ErrorCollector variable: its children in order
    conc,     \* the goroutines sharing a base error, once they are started
    enc,      \* the results of the structured encodings made so far
    callers,  \* the call stack of a client that captures traces itself
    trace     \* that client's StackTrace variable

vars == <<heap, arrays, calls, limit, ret, errs, conc, enc, callers, trace>>

\* what only the encoding client and the capturing client use
clients == <<enc, callers, trace>>

(***************************************************************************)
(* error interface values.  k is the dynamic type: "nil" (the nil          *)
(* interface), "plain" (an error built by fmt.Errorf or errors.New, n is   *)
(* its identity), "wrap" (a foreign error whose Unwrap returns items[1]),  *)
(* "ptr" (a *Error, n is its address), "coll" (an ErrorCollector, items    *)
(* are its children in index order).                                       *)
(***************************************************************************)
NilErr == [k |-> "nil", n |-> 0, items |-> <<>>]
Plain(n) == [k |-> "plain", n |-> n, items |-> <<>>]
Wrapped(n, e) == [k |-> "wrap", n |-> n, items |-> <<e>>]
Ptr(a) == [k |-> "ptr", n |-> a, items |-> <<>>]
Coll(items) == [k |-> "coll", n |-> 0, items |-> items]
\* an error of a client's own type that is a json.Marshaler and an
\* xml.Marshaler, and whose MarshalJSON and MarshalXML return an error
Rejecting == [k |-> "rejects", n |-> 0, items |-> <<>>]

\* the text of the foreign errors of the model
PlainMsg(n) == IF n = 1 THEN "oh no" ELSE "oh yes"

(***************************************************************************)
(* Slices of strings.                                                      *)
(***************************************************************************)
NilSlice == [arr |-> 0, len |-> 0]

Cap(arrs, s) == IF s.arr = 0 THEN 0 ELSE Len(arrs[s.arr])

Elems(arrs, s) == IF s.arr = 0 THEN <<>> ELSE SubSeq(arrs[s.arr], 1, s.len)

\* capacity chosen by append when the old capacity old cannot hold need
\* elements (runtime.growslice for capacities below its doubling threshold;
\* 16-byte string headers fill the allocator's size classes exactly up to 16
\* elements, so no rounding takes place in this range)
GrowCap(old, need) == IF need > 2 * old THEN need ELSE 2 * old

\* append(s, elems...): the arrays after the call and the returned slice
GoAppend(arrs, s, elems) ==
    LET need == s.len + Len(elems)
        cap == Cap(arrs, s)
    IN  IF Len(elems) = 0
        THEN [arrays |-> arrs, s |-> s]
        ELSE IF need <= cap
        THEN [arrays |-> [arrs EXCEPT ![s.arr] =
                            [i \in 1..cap |->
                               IF i > s.len /\ i <= need
                               THEN elems[i - s.len] ELSE @[i]]],
              s |-> [arr |-> s.arr, len |-> need]]
        ELSE LET newcap == GrowCap(cap, need)
                 filled == Elems(arrs, s) \o elems
             IN  [arrays |-> Append(arrs,
                                [i \in 1..newcap |->
                                   IF i <= need THEN filled[i] ELSE ""]),
                  s |-> [arr |-> Len(arrs) + 1, len |-> need]]

(***************************************************************************)
(* Stack traces: a sequence of frames, innermost first.  A call made from  *)
(* call site s captures the frame of s and the frames above it.           *)
(***************************************************************************)
\* The client is straight-line code: its n-th call is made from line n,
\* below the program entry (frame 0).
StackOf(frames) == [nil |-> FALSE, frames |-> frames]

NilStack == [nil |-> TRUE, frames |-> <<>>]

NewStackTrace(site) == StackOf(<<site, 0>>)

\* the call site of the next call
Site == calls + 1

\* the frames a caller may hand to Wrap
FrameArgs == {<<>>, <<9>>}

(***************************************************************************)
(* Context maps.  A Go map argument is either nil or a map.                *)
(***************************************************************************)
StrVal(s) == [t |-> "string", i |-> 0, s |-> s, l |-> <<>>]
IntVal(i) == [t |-> "int", i |-> i, s |-> "", l |-> <<>>]
ListVal(l) == [t |-> "list", i |-> 0, s |-> "", l |-> l]

EmptyMap == [key \in {} |-> StrVal("")]

NilMap == [nil |-> TRUE, m |-> EmptyMap]

MapOf(m) == [nil |-> FALSE, m |-> m]

UserCtx == [key \in {"user"} |-> StrVal("root")]

ContextArgs == {NilMap, MapOf(UserCtx)}

(***************************************************************************)
(* The argument domains of the calls.                                      *)
(***************************************************************************)
Messages == {"failed"}

NewMessages == {"denied"}

Codes == {404}

Statuses == {200}

\* the arguments (text, details...) of WithDetails
DetailArgs == {<<"x">>, <<"y">>, <<"x", "z">>}

Addrs == 1..Len(heap)

\* errors a caller can attach as a cause
CauseArgs == {NilErr, Plain(1)} \cup {Ptr(a) : a \in Addrs}

\* errors a caller can hand to the package-level Wrap
WrapArgs ==
    CauseArgs
      \cup {Wrapped(1, Ptr(a)) : a \in Addrs}
      \cup {Coll(<<Plain(1), Ptr(a)>>) : a \in Addrs}
      \cup {Coll(<<Plain(1), Plain(2)>>)}
      \cup {Coll(<<Ptr(a), Ptr(a - 1)>>) : a \in Addrs \ {1}}

(***************************************************************************)
(* The record of the last call.                                            *)
(***************************************************************************)
Ret(op, recv, err, str, res) ==
    [op |-> op, recv |-> recv, err |-> err, str |-> str, res |-> res]

NoRet == Ret("none", 0, NilErr, "", 0)

(***************************************************************************)
(* errors.Unwrap, and errors.As for a pointer target of the given type.    *)
(***************************************************************************)
\* a faulty Unwrap that returns the first element of any non-empty collector
CollectorUnwrapFirst(items) == IF Len(items) >= 1 THEN items[1] ELSE NilErr

\* ErrorCollector.Unwrap
CollectorUnwrap(items) == IF Len(items) = 1 THEN items[1] ELSE NilErr

\* Error.Unwrap
Unwrap(a) == heap[a].reason

\* errors.Unwrap: the result of the value's Unwrap method, nil without one
ErrorsUnwrap(err) ==
    CASE err.k = "ptr" -> Unwrap(err.n)
      [] err.k = "coll" -> CollectorUnwrap(err.items)
      [] err.k = "wrap" -> err.items[1]
      [] OTHER -> NilErr

\* the dynamic type of a value is assignable to the target's element type
AssignableTo(err, type) == err.k = type

AsResult(st, v) == [st |-> st, v |-> v]

RECURSIVE ErrorsAs(_, _, _)
RECURSIVE CollectorAsFrom(_, _, _, _)

\* ErrorCollector.As: scans the children from index i on.  seen holds the
\* *Error addresses on the walk so far; reaching one of them again without a
\* match means the walk never returns ("div").
CollectorAsFrom(items, i, type, seen) ==
    IF i > Len(items)
    THEN AsResult("no", NilErr)
    ELSE LET r == ErrorsAs(items[i], type, seen)
         IN  IF r.st = "no"
             THEN CollectorAsFrom(items, i + 1, type, seen)
             ELSE r

\* a faulty As that scans the children from the last index down
RECURSIVE CollectorAsBack(_, _, _, _)
CollectorAsBack(items, i, type, seen) ==
    IF i < 1
    THEN AsResult("no", NilErr)
    ELSE LET r == ErrorsAs(items[i], type, seen)
         IN  IF r.st = "no"
             THEN CollectorAsBack(items, i - 1, type, seen)
             ELSE r

CollectorAsReversed(items, type, seen) ==
    CollectorAsBack(items, Len(items), type, seen)

CollectorAs(items, type, seen) == CollectorAsFrom(items, 1, type, seen)

\* errors.As(err, &target) with target of the given type
ErrorsAs(err, type, seen) ==
    IF err.k = "nil"
    THEN AsResult("no", NilErr)
    ELSE IF AssignableTo(err, type)
    THEN AsResult("ok", err)
    ELSE IF err.k = "ptr" /\ err.n \in seen
    THEN AsResult("div", NilErr)
    ELSE LET own == IF err.k = "coll"
                    THEN CollectorAs(err.items, type, seen)
                    ELSE AsResult("no", NilErr)
             next == IF err.k = "ptr" THEN seen \cup {err.n} ELSE seen
         IN  IF own.st = "no"
             THEN ErrorsAs(ErrorsUnwrap(err), type, next)
             ELSE own

\* reflect's Comparable for the dynamic type of a value: an ErrorCollector is
\* a slice, every other error of the model is a pointer
Comparable(err) == err.k # "coll"

RECURSIVE ErrorsIs(_, _, _)
RECURSIVE CollectorIsFrom(_, _, _, _)

\* the loop of ErrorCollector.Is from index i on: "no" at the first child
\* that does not match its counterpart
CollectorIsFrom(items, others, i, seen) ==
    IF i > Len(items)
    THEN "ok"
    ELSE LET r == ErrorsIs(items[i], others[i], seen)
         IN  IF r = "ok"
             THEN CollectorIsFrom(items, others, i + 1, seen)
             ELSE r

\* a faulty Is that does not wrap a single target into a collector
CollectorIsUnwrapped(items, target, seen) ==
    IF Len(items) # Len(target.items)
    THEN "no"
    ELSE CollectorIsFrom(items, target.items, 1, seen)

\* a faulty Is that accepts a target with more items
CollectorIsPrefix(items, target, seen) ==
    LET others == IF target.k = "coll" THEN target.items ELSE <<target>>
    IN  IF Len(items) > Len(others)
        THEN "no"
        ELSE CollectorIsFrom(items, others, 1, seen)

\* ErrorCollector.Is
CollectorIs(items, target, seen) ==
    LET others == IF target.k = "coll" THEN target.items ELSE <<target>>
    IN  IF Len(items) # Len(others)
        THEN "no"
        ELSE CollectorIsFrom(items, others, 1, seen)

\* errors.Is(err, target): "ok", "no", or "div" when the walk never returns
ErrorsIs(err, target, seen) ==
    IF target.k = "nil"
    THEN IF err = target THEN "ok" ELSE "no"
    ELSE IF err.k = "nil"
    THEN "no"
    ELSE IF Comparable(target) /\ err = target
    THEN "ok"
    ELSE IF err.k = "ptr" /\ err.n \in seen
    THEN "div"
    ELSE LET own == IF err.k = "coll"
                    THEN CollectorIs(err.items, target, seen)
                    ELSE "no"
             next == IF err.k = "ptr" THEN seen \cup {err.n} ELSE seen
         IN  IF own = "no"
             THEN ErrorsIs(ErrorsUnwrap(err), target, next)
             ELSE own

(***************************************************************************)
(* The Composite Error.                                                    *)
(***************************************************************************)
NewError(code, status, msg, details, stack, context, reason) ==
    [code |-> code, status |-> status, msg |-> msg, details |-> details,
     stack |-> stack, context |-> context, reason |-> reason]

\* the zero value of the Error struct
ZeroError == NewError(0, 0, "", NilSlice, NilStack, NilMap, NilErr)

\* the goroutines that share a base error
Threads == {"t1", "t2"}

\* no goroutine has been started
NoThreads ==
    [started |-> FALSE, base |-> 0,
     pc |-> [t \in Threads |-> "idle"],
     op |-> [t \in Threads |-> "none"],
     args |-> [t \in Threads |-> <<>>],
     x |-> [t \in Threads |-> ZeroError],
     res |-> [t \in Threads |-> 0],
     out |-> [t \in Threads |-> <<>>],
     log |-> {}]

\* what every call does to the bookkeeping
Called == calls < limit /\ calls' = calls + 1 /\ UNCHANGED limit

\* Errorf(msg): a new Error with status 500, an empty context, nil details
\* and a stack captured at the call site
Errorf ==
    \E msg \in Messages :
        /\ Called
        /\ heap' = Append(heap,
                     NewError(0, 500, msg, NilSlice,
                              NewStackTrace(Site), MapOf(EmptyMap), NilErr))
        /\ ret' = Ret("Errorf", 0, NilErr, msg, Len(heap) + 1)
        /\ UNCHANGED <<arrays, errs, conc, clients>>

\* a faulty Wrap that wraps every err into a new Error
WrapAlwaysNew ==
    \E err \in WrapArgs :
        /\ Called
        /\ heap' = Append(heap,
                     NewError(0, 500, "", NilSlice, NewStackTrace(Site),
                              MapOf(EmptyMap), err))
        /\ ret' = Ret("Wrap", 0, err, "", Len(heap) + 1)
        /\ UNCHANGED <<arrays, errs, conc, clients>>

\* a faulty Wrap that returns err when err itself is a Composite Error and
\* does not look further down its chain
WrapItselfOnly ==
    \E err \in WrapArgs, frames \in FrameArgs :
        IF err.k = "ptr"
        THEN /\ Called
             /\ ret' = Ret("Wrap", 0, err, "", err.n)
             /\ UNCHANGED <<heap, arrays, errs, conc, clients>>
        ELSE /\ Called
             /\ heap' = Append(heap,
                          NewError(0, 500, "", NilSlice,
                                   IF Len(frames) = 0
                                   THEN NewStackTrace(Site)
                                   ELSE StackOf(frames),
                                   MapOf(EmptyMap), err))
             /\ ret' = Ret("Wrap", 0, err, "", Len(heap) + 1)
             /\ UNCHANGED <<arrays, errs, conc, clients>>

\* Wrap(err, frames...): the *Error errors.As finds in err's chain, or a new
\* Error around err
Wrap ==
    \E err \in WrapArgs, frames \in FrameArgs :
        LET found == ErrorsAs(err, "ptr", {})
        IN  IF found.st = "ok"
            THEN /\ Called
                 /\ ret' = Ret("Wrap", 0, err, "", found.v.n)
                 /\ UNCHANGED <<heap, arrays, errs, conc, clients>>
            ELSE /\ Called
                 /\ heap' = Append(heap,
                              NewError(0, 500, "", NilSlice,
                                       IF Len(frames) = 0
                                       THEN NewStackTrace(Site)
                                       ELSE StackOf(frames),
                                       MapOf(EmptyMap), err))
                 /\ ret' = Ret("Wrap", 0, err, "", Len(heap) + 1)
                 /\ UNCHANGED <<arrays, errs, conc, clients>>

\* a faulty WithError that captures the stack and keeps the old cause
WithErrorKeepsCause ==
    \E a \in Addrs, err \in CauseArgs :
        /\ Called
        /\ heap' = Append(heap, [heap[a] EXCEPT !.stack = NewStackTrace(Site)])
        /\ ret' = Ret("WithError", a, err, "", Len(heap) + 1)
        /\ UNCHANGED <<arrays, errs, conc, clients>>

\* a faulty WithError that attaches the cause to the receiver itself
WithErrorInPlace ==
    \E a \in Addrs, err \in CauseArgs :
        /\ Called
        /\ heap' = [heap EXCEPT ![a].reason = err,
                                ![a].stack = NewStackTrace(Site)]
        /\ ret' = Ret("WithError", a, err, "", a)
        /\ UNCHANGED <<arrays, errs, conc, clients>>

\* x.WithError(err): a copy of x with the cause err and a new stack
WithError ==
    \E a \in Addrs, err \in CauseArgs :
        /\ Called
        /\ heap' = Append(heap, [heap[a] EXCEPT !.reason = err,
                                                !.stack = NewStackTrace(Site)])
        /\ ret' = Ret("WithError", a, err, "", Len(heap) + 1)
        /\ UNCHANGED <<arrays, errs, conc, clients>>

\* a faulty WithMessage that builds the copy from the message alone
WithMessageOnly ==
    \E a \in Addrs, text \in NewMessages :
        /\ Called
        /\ heap' = Append(heap,
                     NewError(0, 500, text, NilSlice, heap[a].stack,
                              MapOf(EmptyMap), NilErr))
        /\ ret' = Ret("WithMessage", a, NilErr, text, Len(heap) + 1)
        /\ UNCHANGED <<arrays, errs, conc, clients>>

\* x.WithMessage(text): a copy of x with the message text
WithMessage ==
    \E a \in Addrs, text \in NewMessages :
        /\ Called
        /\ heap' = Append(heap, [heap[a] EXCEPT !.msg = text])
        /\ ret' = Ret("WithMessage", a, NilErr, text, Len(heap) + 1)
        /\ UNCHANGED <<arrays, errs, conc, clients>>

\* a faulty WithDetails that replaces the list by its arguments
WithDetailsReplaces ==
    \E a \in Addrs, args \in DetailArgs :
        LET made == GoAppend(arrays, NilSlice, args)
        IN  /\ Called
            /\ heap' = Append(heap, [heap[a] EXCEPT !.details = made.s])
            /\ arrays' = made.arrays
            /\ ret' = Ret("WithDetails", a, NilErr, Head(args), Len(heap) + 1)
            /\ UNCHANGED <<errs, conc, clients>>

\* x.WithDetails(text, details...): a copy of x whose details slice is the
\* result of two appends to the receiver's slice header
WithDetails ==
    \E a \in Addrs, args \in DetailArgs :
        LET first == GoAppend(arrays, heap[a].details, <<Head(args)>>)
            second == GoAppend(first.arrays, first.s, Tail(args))
        IN  /\ Called
            /\ heap' = Append(heap, [heap[a] EXCEPT !.details = second.s])
            /\ arrays' = second.arrays
            /\ ret' = Ret("WithDetails", a, NilErr, Head(args), Len(heap) + 1)
            /\ UNCHANGED <<errs, conc, clients>>

\* x.WithCode(code): a copy of x with the code
WithCode ==
    \E a \in Addrs, code \in Codes :
        /\ Called
        /\ heap' = Append(heap, [heap[a] EXCEPT !.code = code])
        /\ ret' = Ret("WithCode", a, NilErr, "", Len(heap) + 1)
        /\ UNCHANGED <<arrays, errs, conc, clients>>

\* x.WithStatus(status): a copy of x with the status
WithStatus ==
    \E a \in Addrs, status \in Statuses :
        /\ Called
        /\ heap' = Append(heap, [heap[a] EXCEPT !.status = status])
        /\ ret' = Ret("WithStatus", a, NilErr, "", Len(heap) + 1)
        /\ UNCHANGED <<arrays, errs, conc, clients>>

\* a faulty WithContext that stores the map as it is given
WithContextAsGiven ==
    \E a \in Addrs, context \in ContextArgs :
        /\ Called
        /\ heap' = Append(heap, [heap[a] EXCEPT !.context = context])
        /\ ret' = Ret("WithContext", a, NilErr,
                      IF context.nil THEN "nil" ELSE "", Len(heap) + 1)
        /\ UNCHANGED <<arrays, errs, conc, clients>>

\* x.WithContext(context): a copy of x with the map, a nil map replaced by
\* an empty one
WithContext ==
    \E a \in Addrs, context \in ContextArgs :
        /\ Called
        /\ heap' = Append(heap,
                     [heap[a] EXCEPT !.context =
                        IF context.nil THEN MapOf(EmptyMap) ELSE context])
        /\ ret' = Ret("WithContext", a, NilErr,
                      IF context.nil THEN "nil" ELSE "", Len(heap) + 1)
        /\ UNCHANGED <<arrays, errs, conc, clients>>

\* a faulty in-place Wrap that keeps the stack of the receiver
ErrorWrapKeepsStack ==
    \E a \in Addrs, err \in CauseArgs :
        /\ Called
        /\ heap' = [heap EXCEPT ![a].reason = err]
        /\ ret' = Ret("ErrorWrap", a, err, "", 0)
        /\ UNCHANGED <<arrays, errs, conc, clients>>

\* x.Wrap(err) on a *Error: replaces the stack and the cause of x in place
ErrorWrap ==
    \E a \in Addrs, err \in CauseArgs :
        /\ Called
        /\ heap' = [heap EXCEPT ![a].stack = NewStackTrace(Site),
                                ![a].reason = err]
        /\ ret' = Ret("ErrorWrap", a, err, "", 0)
        /\ UNCHANGED <<arrays, errs, conc, clients>>

(***************************************************************************)
(* Rendering.  What Format writes is kept as the sequence of its writes;   *)
(* the tab character and the newline are always writes of their own.  In   *)
(* compact mode the output is their concatenation; in verbose mode they    *)
(* pass through a text/tabwriter (minwidth 0, tabwidth 0, padding 1,       *)
(* padchar ' ', AlignRight).  The texts of the model hold no tab and no    *)
(* newline, so a line has at most one tab-terminated cell.                 *)
(***************************************************************************)
RECURSIVE Concat(_)
Concat(ws) == IF ws = <<>> THEN "" ELSE Head(ws) \o Concat(Tail(ws))

RECURSIVE Spaces(_)
Spaces(n) == IF n <= 0 THEN "" ELSE " " \o Spaces(n - 1)

\* format.NewState: nothing written yet
NewState == [buf |-> <<>>, size |-> 0]

\* State.Write
Write(w, data) == [buf |-> Append(w.buf, data), size |-> w.size + Len(data)]

\* State.Size
Size(w) == w.size

\* the lines of what was written to the tabwriter: for each line its
\* tab-terminated cell (if any) and the text after it
RECURSIVE SplitLines(_, _, _)
SplitLines(ws, lines, cur) ==
    IF ws = <<>>
    THEN Append(lines, cur)
    ELSE IF Head(ws) = "\n"
    THEN SplitLines(Tail(ws), Append(lines, cur),
                    [tab |-> FALSE, cell |-> "", last |-> ""])
    ELSE IF Head(ws) = "\t"
    THEN SplitLines(Tail(ws), lines,
                    [tab |-> TRUE, cell |-> cur.last, last |-> ""])
    ELSE SplitLines(Tail(ws), lines, [cur EXCEPT !.last = @ \o Head(ws)])

Max(S) == CHOOSE x \in S : \A y \in S : y <= x

\* the width of the column block of line i: the widest cell of the run of
\* consecutive lines with a cell around i, plus the padding
ColumnWidth(lines, i) ==
    LET block == {k \in 1..Len(lines) :
                    \A j \in (IF k < i THEN k..i ELSE i..k) : lines[j].tab}
    IN  Max({Len(lines[k].cell) : k \in block}) + 1

RECURSIVE JoinLines(_, _)
JoinLines(lines, i) ==
    IF i > Len(lines)
    THEN ""
    ELSE (IF i > 1 THEN "\n" ELSE "")
           \o (IF lines[i].tab
               THEN Spaces(ColumnWidth(lines, i) - Len(lines[i].cell))
                      \o lines[i].cell
               ELSE "")
           \o lines[i].last
           \o JoinLines(lines, i + 1)

\* tabwriter.Writer after Flush: every cell right-aligned in its column
TabWriter(ws) ==
    JoinLines(SplitLines(ws, <<>>, [tab |-> FALSE, cell |-> "", last |-> ""]), 1)

\* State.Flush: what reaches the underlying fmt.State
Flush(w, plus) == IF plus THEN TabWriter(w.buf) ELSE Concat(w.buf)

\* a faulty title that writes the separator before the first field too
titleAlwaysSeparates(w, text, plus) ==
    LET sep == Write(w, IF plus THEN "\n" ELSE " ")
        lab == Write(sep, text)
        tab == IF plus THEN Write(lab, "\t") ELSE lab
    IN  Write(tab, " ")

\* Error.title
title(w, text, plus) ==
    LET sep == IF Size(w) > 0
               THEN Write(w, IF plus THEN "\n" ELSE " ")
               ELSE w
        lab == Write(sep, text)
        tab == IF plus THEN Write(lab, "\t") ELSE lab
    IN  Write(tab, " ")

\* Error.newline
newline(w, plus) == IF plus THEN Write(w, "\n") ELSE w

\* a faulty formatBullet that ends every entry, the last too, with a newline
RECURSIVE formatBulletLines(_, _, _)
formatBulletLines(w, lines, i) ==
    IF i > Len(lines)
    THEN w
    ELSE formatBulletLines(Write(Write(Write(w, " --- "), lines[i]), "\n"),
                           lines, i + 1)

\* StringSlice.formatBullet / StackTrace.formatBullet over the items' texts
RECURSIVE formatBullet(_, _, _)
formatBullet(w, lines, i) ==
    IF i > Len(lines)
    THEN w
    ELSE LET item == Write(Write(w, " --- "), lines[i])
         IN  formatBullet(IF i < Len(lines) THEN Write(item, "\n") ELSE item,
                          lines, i + 1)

\* StringSlice.formatSlice / StackTrace.formatSlice / ErrorCollector.formatSlice
RECURSIVE formatItems(_, _, _)
formatItems(w, lines, i) ==
    IF i > Len(lines)
    THEN w
    ELSE formatItems(Write(IF i > 1 THEN Write(w, ", ") ELSE w, lines[i]),
                     lines, i + 1)

formatSlice(w, lines) == Write(formatItems(Write(w, "["), lines, 1), "]")

\* StringSlice.Format and StackTrace.Format for the verb v
SliceFormat(w, lines, plus) ==
    IF plus THEN formatBullet(w, lines, 1) ELSE formatSlice(w, lines)

\* StackFrame.Format for the verb v: file:line, and the function with +
FrameText(pc, plus) ==
    IF plus
    THEN "/app/main.go:" \o ToString(pc) \o " (run)"
    ELSE "main.go:" \o ToString(pc)

\* the reason/child graph below err runs into a cycle: rendering err
\* recurses without bound
RECURSIVE Loops(_, _)
Loops(err, seen) ==
    CASE err.k = "ptr" ->
           err.n \in seen \/ Loops(heap[err.n].reason, seen \cup {err.n})
      [] err.k \in {"coll", "wrap"} ->
           \E i \in 1..Len(err.items) : Loops(err.items[i], seen)
      [] OTHER -> FALSE

RECURSIVE ErrorText(_, _)
RECURSIVE FormatV(_, _, _)

RECURSIVE FormatWrites(_, _, _)

\* what Error.Format for the verb v writes to its format.State, with the +
\* flag or without it
FormatWrites(a, plus, seen) ==
    LET x == heap[a]
        w0 == NewState
        w1 == IF x.code # 0
              THEN Write(title(w0, "code:", plus), ToString(x.code))
              ELSE w0
        w2 == IF x.msg # ""
              THEN Write(title(w1, "message:", plus), x.msg)
              ELSE w1
        w3 == IF x.details.arr # 0
              THEN SliceFormat(newline(title(w2, "details:", plus), plus),
                               Elems(arrays, x.details), plus)
              ELSE w2
        w4 == IF x.reason.k # "nil"
              THEN Write(title(w3, "cause:", plus), ErrorText(x.reason, seen))
              ELSE w3
        w5 == IF ~x.stack.nil /\ plus
              THEN SliceFormat(newline(title(w4, "stack:", plus), plus),
                               [i \in 1..Len(x.stack.frames) |->
                                  FrameText(x.stack.frames[i], plus)],
                               plus)
              ELSE w4
    IN  w5

\* Error.Format for the verb v: the writes, flushed
FormatV(a, plus, seen) == Flush(FormatWrites(a, plus, seen), plus)

\* the text of the verb v without flags for an error value: its Error().
\* Evaluation stops at an address already on the path (see Loops).
ErrorText(err, seen) ==
    CASE err.k = "nil" -> "<nil>"
      [] err.k = "plain" -> PlainMsg(err.n)
      [] err.k = "wrap" -> "wrapped: " \o ErrorText(err.items[1], seen)
      [] err.k = "rejects" -> "rejected"
      [] err.k = "ptr" ->
           IF err.n \in seen
           THEN ""
           ELSE FormatV(err.n, FALSE, seen \cup {err.n})
      [] err.k = "coll" ->
           Flush(formatSlice(NewState,
                             [i \in 1..Len(err.items) |->
                                ErrorText(err.items[i], seen)]),
                 FALSE)

\* fmt.Sprintf of the verb v (plus = FALSE) or +v (plus = TRUE) on a *Error
Format(a, plus) == FormatV(a, plus, {a})

(***************************************************************************)
(* Error.data and Error.Context.                                           *)
(***************************************************************************)
keyCode == "error_code"
keyMessage == "error_message"
keyDetails == "error_details"
keyCause == "error_cause"
keyStack == "error_stack"

\* the fields data sets, and the value of each
FieldKeysEmptyMessage(a) ==
    {k \in {keyCode, keyMessage, keyDetails, keyCause, keyStack} :
        CASE k = keyCode -> heap[a].code > 0
          [] k = keyMessage -> TRUE
          [] k = keyDetails -> heap[a].details.len > 0
          [] k = keyCause -> heap[a].reason.k # "nil"
          [] k = keyStack -> ~heap[a].stack.nil}

FieldKeys(a) ==
    {k \in {keyCode, keyMessage, keyDetails, keyCause, keyStack} :
        CASE k = keyCode -> heap[a].code > 0
          [] k = keyMessage -> heap[a].msg # ""
          [] k = keyDetails -> heap[a].details.len > 0
          [] k = keyCause -> heap[a].reason.k # "nil"
          [] k = keyStack -> ~heap[a].stack.nil}

FieldValue(a, k) ==
    CASE k = keyCode -> IntVal(heap[a].code)
      [] k = keyMessage -> StrVal(heap[a].msg)
      [] k = keyDetails -> ListVal(Elems(arrays, heap[a].details))
      [] k = keyCause -> StrVal(ErrorText(heap[a].reason, {a}))
      [] k = keyStack -> ListVal(heap[a].stack.frames)

\* data with the keys left out of the fields only, not of the context
dataOfFields(a, keys) ==
    LET ctx == heap[a].context.m
        fields == [k \in FieldKeys(a) \ keys |-> FieldValue(a, k)]
    IN  ctx @@ fields

\* x.data(keys...): the fields that are set, then the context entries over
\* them, leaving out every key named in keys (the keys of the model are in
\* lower case, where strings.EqualFold is equality)
data(a, keys) ==
    LET ctx == heap[a].context.m
        fields == [k \in FieldKeys(a) \ keys |-> FieldValue(a, k)]
    IN  [k \in DOMAIN ctx \ keys |-> ctx[k]] @@ fields

\* x.Context(): never returns when rendering the cause does not
Context(a) ==
    [returns |-> ~Loops(Ptr(a), {}),
     m |-> IF Loops(Ptr(a), {}) THEN EmptyMap ELSE data(a, {})]

(***************************************************************************)
(* The client of the whole Error API.                                      *)
(***************************************************************************)
Init ==
    /\ heap = <<>>
    /\ arrays = <<>>
    /\ calls = 0
    /\ limit = MaxCalls
    /\ ret = NoRet
    /\ errs = <<>>
    /\ conc = NoThreads
    /\ enc = <<>>
    /\ callers = <<>>
    /\ trace = NilStack

Next ==
    \/ Errorf
    \/ Wrap
    \/ WithError
    \/ WithMessage
    \/ WithDetails
    \/ WithCode
    \/ WithStatus
    \/ WithContext
    \/ ErrorWrap

Spec == Init /\ [][Next]_vars

(***************************************************************************)
(* The client that builds detail lists: it creates errors and derives      *)
(* further ones with WithDetails and WithMessage.                          *)
(***************************************************************************)
InitCow ==
    /\ heap = <<>>
    /\ arrays = <<>>
    /\ calls = 0
    /\ limit = MaxChain
    /\ ret = NoRet
    /\ errs = <<>>
    /\ conc = NoThreads
    /\ enc = <<>>
    /\ callers = <<>>
    /\ trace = NilStack

NextCow ==
    \/ Errorf
    \/ WithDetails
    \/ WithMessage

SpecCow == InitCow /\ [][NextCow]_vars

(***************************************************************************)
(* The client that collects errors in its ErrorCollector variable errs.    *)
(***************************************************************************)
\* errors a caller can append: nil, foreign errors, Composite Errors, and
\* the collector itself as it is at the call
CollectArgs ==
    {NilErr, Plain(1), Plain(2), Coll(errs)} \cup {Ptr(a) : a \in Addrs}

\* a faulty Wrap that puts err in front
CollectorWrapFront ==
    \E err \in CollectArgs :
        /\ Called
        /\ errs' = <<err>> \o errs
        /\ ret' = Ret("CollectorWrap", 0, err, "", 0)
        /\ UNCHANGED <<heap, arrays, conc, clients>>

\* errs.Wrap(err): appends err
CollectorWrap ==
    \E err \in CollectArgs :
        /\ Called
        /\ errs' = Append(errs, err)
        /\ ret' = Ret("CollectorWrap", 0, err, "", 0)
        /\ UNCHANGED <<heap, arrays, conc, clients>>

InitColl ==
    /\ heap = <<>>
    /\ arrays = <<>>
    /\ calls = 0
    /\ limit = MaxCollect
    /\ ret = NoRet
    /\ errs = <<>>
    /\ conc = NoThreads
    /\ enc = <<>>
    /\ callers = <<>>
    /\ trace = NilStack

NextColl ==
    \/ Errorf
    \/ Wrap
    \/ ErrorWrap
    \/ CollectorWrap

SpecColl == InitColl /\ [][NextColl]_vars

(***************************************************************************)
(* The client that builds an error and then shares it: each goroutine      *)
(* makes one call on the base, a With* mutator or a read accessor, and the *)
(* goroutines' memory accesses interleave.  conc.log records every access  *)
(* a goroutine makes: its location (arr 0 is the base struct itself, any   *)
(* other arr a backing array and idx the element) and whether it writes.   *)
(***************************************************************************)
Access(t, arr, idx, w) == [t |-> t, arr |-> arr, idx |-> idx, w |-> w]

\* the calls a goroutine can make on the base
ThreadOps ==
    {[name |-> "WithDetails", args |-> d] : d \in DetailArgs}
      \cup {[name |-> "WithMessage", args |-> <<m>>] : m \in NewMessages}
      \cup {[name |-> "Details", args |-> <<>>]}

\* go func() { ... }(): the client has made its calls and starts the
\* goroutines on one of its errors
Go ==
    /\ ~conc.started
    /\ calls = limit
    /\ \E a \in Addrs :
         conc' = [conc EXCEPT !.started = TRUE, !.base = a]
    /\ UNCHANGED <<heap, arrays, calls, limit, ret, errs, clients>>

\* a goroutine enters its call: a value receiver is a copy of the base
\* struct, an accessor reads the field it returns
ThreadCall(t) ==
    /\ conc.started
    /\ conc.pc[t] = "idle"
    /\ \E op \in ThreadOps :
         conc' = [conc EXCEPT
                    !.pc[t] = CASE op.name = "WithDetails" -> "append1"
                                [] op.name = "WithMessage" -> "return"
                                [] op.name = "Details" -> "read",
                    !.op[t] = op.name,
                    !.args[t] = op.args,
                    !.x[t] = heap[conc.base],
                    !.log = @ \cup {Access(t, 0, conc.base, FALSE)}]
    /\ UNCHANGED <<heap, arrays, calls, limit, ret, errs, clients>>

\* one of the two appends of WithDetails, on the goroutine's copy
ThreadAppend(t) ==
    /\ conc.pc[t] \in {"append1", "append2"}
    /\ LET elems == IF conc.pc[t] = "append1"
                    THEN <<Head(conc.args[t])>>
                    ELSE Tail(conc.args[t])
           s == conc.x[t].details
           r == GoAppend(arrays, s, elems)
           touched ==
               IF Len(elems) = 0
               THEN {}
               ELSE IF r.s.arr = s.arr
               THEN {Access(t, s.arr, i, TRUE) : i \in (s.len + 1)..r.s.len}
               ELSE {Access(t, s.arr, i, FALSE) : i \in 1..s.len}
                      \cup {Access(t, r.s.arr, i, TRUE) : i \in 1..r.s.len}
       IN  /\ arrays' = r.arrays
           /\ conc' = [conc EXCEPT
                         !.pc[t] = IF @ = "append1" THEN "append2" ELSE "return",
                         !.x[t].details = r.s,
                         !.log = @ \cup touched]
    /\ UNCHANGED <<heap, calls, limit, ret, errs, clients>>

\* the caller of Details() reads the elements of the slice it got
ThreadRead(t) ==
    /\ conc.pc[t] = "read"
    /\ LET s == conc.x[t].details
       IN  conc' = [conc EXCEPT
                      !.pc[t] = "done",
                      !.out[t] = Elems(arrays, s),
                      !.log = @ \cup {Access(t, s.arr, i, FALSE) : i \in 1..s.len}]
    /\ UNCHANGED <<heap, arrays, calls, limit, ret, errs, clients>>

\* return &x: the goroutine's copy becomes the new instance
ThreadReturn(t) ==
    /\ conc.pc[t] = "return"
    /\ heap' = Append(heap,
                 IF conc.op[t] = "WithMessage"
                 THEN [conc.x[t] EXCEPT !.msg = conc.args[t][1]]
                 ELSE conc.x[t])
    /\ conc' = [conc EXCEPT !.pc[t] = "done", !.res[t] = Len(heap) + 1]
    /\ UNCHANGED <<arrays, calls, limit, ret, errs, clients>>

InitConc ==
    /\ heap = <<>>
    /\ arrays = <<>>
    /\ calls = 0
    /\ limit = MaxSetup
    /\ ret = NoRet
    /\ errs = <<>>
    /\ conc = NoThreads
    /\ enc = <<>>
    /\ callers = <<>>
    /\ trace = NilStack

NextConc ==
    \/ Errorf
    \/ WithDetails
    \/ Go
    \/ \E t \in Threads : ThreadCall(t)
    \/ \E t \in Threads : ThreadAppend(t)
    \/ \E t \in Threads : ThreadRead(t)
    \/ \E t \in Threads : ThreadReturn(t)

SpecConc == InitConc /\ [][NextConc]_vars

(***************************************************************************)
(* What a holder of a *Error observes through its accessors.               *)
(***************************************************************************)
\* x.Code()
Code(a) == heap[a].code

\* x.Status()
Status(a) == heap[a].status

\* x.Message()
Message(a) == heap[a].msg

\* x.Details()
Details(a) == Elems(arrays, heap[a].details)

\* x.Cause()
Cause(a) == heap[a].reason

\* x.StackTrace()
StackTrace(a) == heap[a].stack

\* the fields of the object at address a in the given memory
Observed(h, arrs, a) ==
    [code |-> h[a].code, status |-> h[a].status, msg |-> h[a].msg,
     details |-> Elems(arrs, h[a].details), reason |-> h[a].reason,
     stack |-> h[a].stack, context |-> h[a].context]

WithOps ==
    {"WithError", "WithMessage", "WithDetails", "WithCode", "WithStatus",
     "WithContext"}

(***************************************************************************)
(* C1                                                                      *)
(***************************************************************************)
\* C1: a With* call (WithDetails included) returns a new instance and leaves
\* what every existing instance shows through its accessors as it was: after
\* a := e.WithDetails("x") and b := e.WithDetails("y"), a.Details() still
\* ends with "x".
C1_WithCopyOnWrite ==
    [][(ret'.op \in WithOps /\ calls' # calls)
         => /\ ret'.res \notin Addrs
            /\ \A a \in Addrs : Observed(heap', arrays', a)
                                  = Observed(heap, arrays, a)]_vars

(***************************************************************************)
(* C2                                                                      *)
(***************************************************************************)
\* err's chain: err, its Unwrap, the Unwrap of that, ... up to the first
\* Composite Error on it
RECURSIVE ChainOf(_)
ChainOf(err) ==
    IF err.k = "nil"
    THEN <<>>
    ELSE IF err.k = "ptr"
    THEN <<err>>
    ELSE <<err>> \o ChainOf(ErrorsUnwrap(err))

ChainHasError(err) == \E i \in 1..Len(ChainOf(err)) : ChainOf(err)[i].k = "ptr"

\* the address of the Composite Error err's chain reaches
ChainError(err) == ChainOf(err)[Len(ChainOf(err))].n

\* C2: Wrap(err) on an err whose chain holds a Composite Error returns that
\* very instance and changes nothing; so Wrap(Wrap(err)) is Wrap(err).
C2_WrapReturnsExisting ==
    [][(ret'.op = "Wrap" /\ calls' # calls /\ ChainHasError(ret'.err))
         => /\ ret'.res = ChainError(ret'.err)
            /\ heap' = heap
            /\ arrays' = arrays]_vars

\* Wrap was called on the result of an earlier Wrap of a foreign error and
\* returned it
C2_Witness ==
    /\ ret.op = "Wrap"
    /\ ret.err.k = "ptr"
    /\ ret.res = ret.err.n
    /\ heap[ret.res].msg = ""
    /\ heap[ret.res].reason = Plain(1)

(***************************************************************************)
(* C3                                                                      *)
(***************************************************************************)
\* C3 as stated: after Wrap(err) or e.WithError(err) the result's Unwrap()
\* is err, after the in-place e.Wrap(err) the receiver's Unwrap() is err,
\* and the Unwrap() of an Errorf result is nil.
C3_UnwrapIsArgument ==
    /\ ret.op \in {"Wrap", "WithError"} => Unwrap(ret.res) = ret.err
    /\ ret.op = "ErrorWrap" => Unwrap(ret.recv) = ret.err
    /\ ret.op = "Errorf" => Unwrap(ret.res) = NilErr

\* err holds a Composite Error: on its Unwrap chain, or among the children
\* of a collector on it
RECURSIVE HoldsError(_)
HoldsError(err) ==
    \/ err.k = "ptr"
    \/ \E i \in 1..Len(err.items) : HoldsError(err.items[i])

\* C3: the same, for the package-level Wrap only when err holds no Composite
\* Error (otherwise Wrap returns the one it finds, with the cause that one
\* already had).
C3_UnwrapIsAttached ==
    /\ (ret.op = "Wrap" /\ ~HoldsError(ret.err)) => Unwrap(ret.res) = ret.err
    /\ ret.op = "WithError" => Unwrap(ret.res) = ret.err
    /\ ret.op = "ErrorWrap" => Unwrap(ret.recv) = ret.err
    /\ ret.op = "Errorf" => Unwrap(ret.res) = NilErr

\* WithError replaced a foreign cause by a Composite Error
C3_Witness ==
    /\ ret.op = "WithError"
    /\ ret.err.k = "ptr"
    /\ heap[ret.recv].reason = Plain(1)
    /\ Unwrap(ret.res) = ret.err

(***************************************************************************)
(* C4                                                                      *)
(***************************************************************************)
\* C4 as stated: f := e.WithMessage(m) has the Code, the Status and the
\* Context() of e.
C4_WithMessagePreserves ==
    ret.op = "WithMessage"
      => /\ Code(ret.res) = Code(ret.recv)
         /\ Status(ret.res) = Status(ret.recv)
         /\ Context(ret.res) = Context(ret.recv)

\* C4: f := e.WithMessage(m) has the Code and the Status of e, and Context()
\* of f and of e agree on every key other than error_message.
C4_WithMessagePreservesRest ==
    ret.op = "WithMessage"
      => /\ Code(ret.res) = Code(ret.recv)
         /\ Status(ret.res) = Status(ret.recv)
         /\ Context(ret.res).returns = Context(ret.recv).returns
         /\ \A k \in (DOMAIN Context(ret.res).m \cup DOMAIN Context(ret.recv).m)
                       \ {keyMessage} :
              /\ k \in DOMAIN Context(ret.res).m
              /\ k \in DOMAIN Context(ret.recv).m
              /\ Context(ret.res).m[k] = Context(ret.recv).m[k]

\* WithMessage changed the message of an error that has a code
C4_Witness ==
    /\ ret.op = "WithMessage"
    /\ Code(ret.recv) = 404
    /\ Message(ret.recv) = "failed"
    /\ Message(ret.res) = "denied"
    /\ Context(ret.res).m[keyCode] = IntVal(404)

(***************************************************************************)
(* C5                                                                      *)
(***************************************************************************)
\* two goroutines accessed the same location and one of them wrote it
DataRace ==
    \E p \in conc.log, q \in conc.log :
        p.t # q.t /\ p.arr = q.arr /\ p.idx = q.idx /\ (p.w \/ q.w)

\* what goroutine t has got is what its call gives with no other goroutine
\* running
ResultAlone(t) ==
    LET base == Observed(heap, arrays, conc.base)
    IN  CASE conc.op[t] = "WithDetails" ->
               Observed(heap, arrays, conc.res[t])
                 = [base EXCEPT !.details = @ \o conc.args[t]]
          [] conc.op[t] = "WithMessage" ->
               Observed(heap, arrays, conc.res[t])
                 = [base EXCEPT !.msg = conc.args[t][1]]
          [] conc.op[t] = "Details" -> conc.out[t] = base.details

\* C5: when goroutines that call only With* mutators and read accessors
\* share a base error, no goroutine writes a location another one reads or
\* writes, and each gets the result it would get alone.
C5_SharedBaseSafe ==
    /\ ~DataRace
    /\ \A t \in Threads : conc.pc[t] = "done" => ResultAlone(t)

(***************************************************************************)
(* C6                                                                      *)
(***************************************************************************)
\* the errors a caller can hand to errs.Is
IsTargets ==
    CollectArgs
      \cup {errs[i] : i \in 1..Len(errs)}
      \cup {Coll(SubSeq(errs, 1, n)) : n \in 0..Len(errs)}
      \cup {Coll(Append(errs, Plain(1)))}

\* C6 as stated: c.Is(x) is true for every single-element collector c = [x]
\* and every error x, and Is is false for two collectors of different
\* lengths.
C6_SingletonIs ==
    /\ Len(errs) = 1 => CollectorIs(errs, errs[1], {}) = "ok"
    /\ \A t \in IsTargets :
         (t.k = "coll" /\ Len(t.items) # Len(errs))
           => CollectorIs(errs, t, {}) = "no"

\* C6: c.Is(x) is true for every single-element collector c = [x] whose x
\* is of a comparable type (so x is no ErrorCollector), and Is is false for
\* two collectors of different lengths.
C6_SingletonIsComparable ==
    /\ (Len(errs) = 1 /\ Comparable(errs[1]))
         => CollectorIs(errs, errs[1], {}) = "ok"
    /\ \A t \in IsTargets :
         (t.k = "coll" /\ Len(t.items) # Len(errs))
           => CollectorIs(errs, t, {}) = "no"

\* a single-element collector around a Composite Error that has a cause
C6_Witness ==
    /\ Len(errs) = 1
    /\ errs[1].k = "ptr"
    /\ Cause(errs[1].n) = Plain(1)
    /\ CollectorIs(errs, errs[1], {}) = "ok"
    /\ CollectorIs(errs, Coll(<<>>), {}) = "no"

(***************************************************************************)
(* C7                                                                      *)
(***************************************************************************)
\* the types a target of errs.As can have
AsTypes == {"plain", "ptr", "coll", "wrap"}

\* C7: errs.As returns true iff the chain of some child holds a value of
\* the target's type, binds the value found in the lowest-index such child,
\* and returns false with the target unbound when no child has one.
C7_AsFirstMatch ==
    \A type \in AsTypes :
        LET r == CollectorAs(errs, type, {})
            m(i) == ErrorsAs(errs[i], type, {})
            hits == {i \in 1..Len(errs) : m(i).st = "ok"}
            lowest == CHOOSE i \in hits : \A j \in hits : i <= j
        IN  /\ r.st = "ok" => (hits # {} /\ r.v = m(lowest).v)
            /\ r.st = "no" => (hits = {} /\ r.v = NilErr)
            /\ (hits # {} /\ \A j \in 1..(lowest - 1) : m(j).st = "no")
                 => r.st = "ok"

\* the first child matches deep in its cause chain, the second directly
C7_Witness ==
    /\ Len(errs) >= 2
    /\ errs[1].k = "ptr"
    /\ Cause(errs[1].n) = Plain(1)
    /\ errs[2] = Plain(2)
    /\ CollectorAs(errs, "plain", {}) = AsResult("ok", Plain(1))
    /\ CollectorAs(errs, "wrap", {}) = AsResult("no", NilErr)

(***************************************************************************)
(* C8                                                                      *)
(***************************************************************************)
\* C8: errs.Unwrap() is the single element when errs has exactly one
\* element, and nil when it has none or more than one.
C8_UnwrapSingle ==
    /\ Len(errs) = 1 => CollectorUnwrap(errs) = errs[1]
    /\ Len(errs) # 1 => CollectorUnwrap(errs) = NilErr

\* a collector of two errors, neither of them nil
C8_Witness ==
    /\ Len(errs) = 2
    /\ errs[1] = Plain(1)
    /\ errs[2].k = "ptr"
    /\ CollectorUnwrap(errs) = NilErr
    /\ CollectorUnwrap(SubSeq(errs, 1, 1)) = Plain(1)

(***************************************************************************)
(* C9                                                                      *)
(***************************************************************************)
\* C9: errs.Wrap(err) makes errs one longer, puts err at the last index and
\* leaves every earlier element at its index; no call makes errs shorter.
C9_WrapAppendsOne ==
    [][/\ (ret'.op = "CollectorWrap" /\ calls' # calls)
            => /\ Len(errs') = Len(errs) + 1
               /\ errs'[Len(errs')] = ret'.err
               /\ \A i \in 1..Len(errs) : errs'[i] = errs[i]
       /\ Len(errs') >= Len(errs)]_vars

\* the third error appended to a collector
C9_Witness ==
    /\ ret.op = "CollectorWrap"
    /\ Len(errs) = 3
    /\ errs[3] = ret.err
    /\ errs[1] # errs[3]

(***************************************************************************)
(* C10                                                                     *)
(***************************************************************************)
RECURSIVE JoinWith(_, _)
JoinWith(texts, sep) ==
    IF texts = <<>>
    THEN ""
    ELSE IF Len(texts) = 1
    THEN texts[1]
    ELSE texts[1] \o sep \o JoinWith(Tail(texts), sep)

RECURSIVE Flatten(_)
Flatten(seqs) == IF seqs = <<>> THEN <<>> ELSE Head(seqs) \o Flatten(Tail(seqs))

\* the fields a rendering shows, in the order it shows them
ShownFields(a, plus) ==
    SelectSeq(<<"code", "message", "details", "cause", "stack">>,
              LAMBDA f :
                CASE f = "code" -> Code(a) # 0
                  [] f = "message" -> Message(a) # ""
                  [] f = "details" -> Details(a) # <<>>
                  [] f = "cause" -> Cause(a).k # "nil"
                  [] f = "stack" -> plus)

\* fields shown as a list of items
ListField(f) == f \in {"details", "stack"}

\* the items of a list field, the text of another field
FieldItems(a, f, plus) ==
    IF f = "details"
    THEN Details(a)
    ELSE [i \in 1..Len(StackTrace(a).frames) |->
            FrameText(StackTrace(a).frames[i], plus)]

FieldText(a, f) ==
    CASE f = "code" -> ToString(Code(a))
      [] f = "message" -> Message(a)
      [] f = "details" -> "[" \o JoinWith(Details(a), ", ") \o "]"
      [] f = "cause" -> ErrorText(Cause(a), {a})

\* compact: label and value of every shown field, joined by one space
CompactText(a) ==
    LET fs == ShownFields(a, FALSE)
    IN  JoinWith([i \in 1..Len(fs) |-> fs[i] \o ": " \o FieldText(a, fs[i])],
                 " ")

\* verbose: every shown field on a line of its own, a list field followed by
\* one line per item; the labels are right-aligned within each run of
\* fields that no item lines interrupt
VerboseText(a) ==
    LET fs == ShownFields(a, TRUE)
        run(i) == {j \in 1..Len(fs) :
                     \A k \in (IF j < i THEN j..(i - 1) ELSE i..(j - 1)) :
                        ~ListField(fs[k])}
        width(i) == Max({Len(fs[j]) + 1 : j \in run(i)})
        label(i) == Spaces(width(i) - Len(fs[i]) - 1) \o fs[i] \o ":"
        lines(i) ==
            IF ListField(fs[i])
            THEN <<" " \o label(i) \o " ">>
                   \o [n \in 1..Len(FieldItems(a, fs[i], TRUE)) |->
                         " --- " \o FieldItems(a, fs[i], TRUE)[n]]
            ELSE <<" " \o label(i) \o " " \o FieldText(a, fs[i])>>
    IN  JoinWith(Flatten([i \in 1..Len(fs) |-> lines(i)]), "\n")

CollectorFormat(items, plus) ==
    Concat(SliceFormat(NewState,
                       [i \in 1..Len(items) |-> ErrorText(items[i], {})],
                       plus).buf)

\* StringSlice.Format for the verbs v and s, with the + flag or without
StringSliceFormat(lines, plus) == Concat(SliceFormat(NewState, lines, plus).buf)

\* detail lists a client can build with one or two WithDetails calls
DetailLists ==
    {<<>>} \cup DetailArgs \cup {d \o <<"y">> : d \in DetailArgs}

(***************************************************************************)
(* C11                                                                     *)
(***************************************************************************)
\* C11: an ErrorCollector, and likewise a StringSlice, renders compactly as
\* "[" + the children's string forms joined by ", " + "]" and verbosely as
\* one " --- child" entry per child in index order, the entries joined by
\* newlines, with nothing after the last and nothing at all when empty.
C11_ListRendering ==
    /\ ~Loops(Coll(errs), {})
         => LET texts == [i \in 1..Len(errs) |-> ErrorText(errs[i], {})]
            IN  /\ CollectorFormat(errs, FALSE)
                     = "[" \o JoinWith(texts, ", ") \o "]"
                /\ CollectorFormat(errs, TRUE)
                     = JoinWith([i \in 1..Len(errs) |-> " --- " \o texts[i]],
                                "\n")
                /\ errs = <<>> => CollectorFormat(errs, TRUE) = ""
    /\ \A d \in DetailLists :
         /\ StringSliceFormat(d, FALSE) = "[" \o JoinWith(d, ", ") \o "]"
         /\ StringSliceFormat(d, TRUE)
              = JoinWith([i \in 1..Len(d) |-> " --- " \o d[i]], "\n")

\* the collector of the two foreign errors "oh no" and "oh yes"
C11_Witness ==
    /\ errs = <<Plain(1), Plain(2)>>
    /\ CollectorFormat(errs, FALSE) = "[oh no, oh yes]"
    /\ CollectorFormat(errs, TRUE) = " --- oh no\n --- oh yes"
    /\ StringSliceFormat(<<"x", "z">>, FALSE) = "[x, z]"
    /\ StringSliceFormat(<<"x", "z">>, TRUE) = " --- x\n --- z"
    /\ CollectorFormat(<<>>, FALSE) = "[]"

(***************************************************************************)
(* Structured encoding: what json.Marshal and xml.Encoder make of an       *)
(* Error and of an ErrorCollector.                                         *)
(***************************************************************************)
MaxEncode == 2
MaxKeys == 3

\* a JSON document: a number, a string, an array, an object whose members
\* are in the order of the text, or no document when the encoding failed
JNum(i) == [t |-> "num", i |-> i, s |-> "", l |-> <<>>]
JStr(s) == [t |-> "str", i |-> 0, s |-> s, l |-> <<>>]
JArr(l) == [t |-> "arr", i |-> 0, s |-> "", l |-> l]
JMember(key, v) == [t |-> "member", i |-> 0, s |-> key, l |-> <<v>>]
JObj(members) == [t |-> "obj", i |-> 0, s |-> "", l |-> members]
JFail == [t |-> "fail", i |-> 0, s |-> "", l |-> <<>>]

\* a message that is not valid UTF-8, and what the encoders write for it
\* (the invalid bytes become the replacement character U+FFFD)
BadText == "oh\\xffno"
FixedText == "oh\\ufffdno"
ToValidUTF8(s) == IF s = BadText THEN FixedText ELSE s

\* the keys and element names of the model in the order of their bytes,
\* which is the order sort.Strings gives
KeyOrder ==
    <<"ErrorCause", "ErrorCode", "ErrorDetails", "ErrorMessage", "ErrorStack",
      "User",
      "error_cause", "error_code", "error_details", "error_message",
      "error_stack", "user">>

\* encoding/json writes the keys of a map sorted
SortedKeys(S) == SelectSeq(KeyOrder, LAMBDA k : k \in S)

\* json.Marshal of a value of the map
JSONValue(v) ==
    CASE v.t = "int" -> JNum(v.i)
      [] v.t = "string" -> JStr(ToValidUTF8(v.s))
      [] v.t = "list" -> JArr([i \in 1..Len(v.l) |-> JStr(ToValidUTF8(v.l[i]))])

\* no error is a json.Marshaler
IsJSONMarshalerNever(err) == FALSE

\* err.(json.Marshaler) and err.(xml.Marshaler): ErrorCollector has
\* MarshalJSON only
IsJSONMarshaler(err) == err.k \in {"ptr", "coll", "rejects"}
IsXMLMarshaler(err) == err.k \in {"ptr", "rejects"}

\* no failure of a nested encoding is seen
AnyFailedNever(l) == FALSE

AnyFailed(l) == \E i \in 1..Len(l) : l[i].t = "fail"

\* json.Marshal of a map whose keys, sorted, are ks and whose encoded values
\* are values, and json.Marshal of a list of encoded values: no document
\* when a value has none (div: a value whose encoding never returns)
MarshalMap(ks, values) ==
    IF \E i \in 1..Len(ks) : values[i].t = "div"
    THEN [JFail EXCEPT !.t = "div"]
    ELSE IF AnyFailed(values)
    THEN JFail
    ELSE JObj([i \in 1..Len(ks) |-> JMember(ks[i], values[i])])

MarshalList(input) ==
    IF \E i \in 1..Len(input) : input[i].t = "div"
    THEN [JFail EXCEPT !.t = "div"]
    ELSE IF AnyFailed(input) THEN JFail ELSE JArr(input)

\* whether x.MarshalJSON puts the cause itself in place of its text, and the
\* keys of the map it encodes
NestedJSON(a) == heap[a].reason.k # "nil" /\ IsJSONMarshaler(heap[a].reason)

JSONKeys(a) ==
    SortedKeys(DOMAIN data(a, {keyStack})
               \cup (IF NestedJSON(a) THEN {keyCause} ELSE {}))

RECURSIVE ErrorMarshalJSON(_, _)
RECURSIVE CollectorMarshalJSON(_, _)
RECURSIVE MarshalerJSON(_, _)

\* json.Marshal of an error that is a json.Marshaler; an error that holds
\* itself is never encoded (div: the calls nest without end)
MarshalerJSON(err, seen) ==
    CASE err.k = "ptr" ->
           IF err.n \in seen
           THEN [JFail EXCEPT !.t = "div"]
           ELSE ErrorMarshalJSON(err.n, seen \cup {err.n})
      [] err.k = "coll" -> CollectorMarshalJSON(err.items, seen)
      [] err.k = "rejects" -> JFail

\* x.MarshalJSON(): the data without the stack, the cause itself in place
\* of its text when it is a json.Marshaler, then json.Marshal of the map
ErrorMarshalJSON(a, seen) ==
    MarshalMap(JSONKeys(a),
               [i \in 1..Len(JSONKeys(a)) |->
                  IF NestedJSON(a) /\ JSONKeys(a)[i] = keyCause
                  THEN MarshalerJSON(heap[a].reason, seen)
                  ELSE JSONValue(data(a, {keyStack})[JSONKeys(a)[i]])])

\* errs.MarshalJSON(): each child itself when it is a json.Marshaler, its
\* Error() text otherwise, then json.Marshal of the list
CollectorMarshalJSON(items, seen) ==
    MarshalList([i \in 1..Len(items) |->
                   IF IsJSONMarshaler(items[i])
                   THEN MarshalerJSON(items[i], seen)
                   ELSE JStr(ToValidUTF8(ErrorText(items[i], seen)))])

\* json.Marshal(x) and json.Marshal(errs) as a client calls them
MarshalJSON(a) == ErrorMarshalJSON(a, {a})

\* json.Unmarshal of a document into an ErrorData: the code and the message
\* (ok is FALSE when a member has not the type of its field)
Member(doc, key) ==
    LET hits == SelectSeq(doc.l, LAMBDA m : m.s = key)
    IN  IF Len(hits) = 0 THEN JFail ELSE hits[1].l[1]

Unmarshal(doc) ==
    LET code == Member(doc, keyCode)
        msg == Member(doc, keyMessage)
    IN  [ok |-> doc.t = "obj" /\ code.t \in {"num", "fail"}
                              /\ msg.t \in {"str", "fail"},
         Code |-> IF code.t = "num" THEN code.i ELSE 0,
         Message |-> IF msg.t = "str" THEN msg.s ELSE ""]

\* x.pascal(key) on the keys of the model
pascal(key) ==
    CASE key = keyCode -> "ErrorCode"
      [] key = keyMessage -> "ErrorMessage"
      [] key = keyDetails -> "ErrorDetails"
      [] key = keyCause -> "ErrorCause"
      [] key = keyStack -> "ErrorStack"
      [] key = "user" -> "User"

\* the character data xml.Encoder writes for the Value of an entry: the
\* text of a number or of a string, nothing for any other value (a list, or
\* an error put in place of its text)
CharData(v) ==
    CASE v.t = "int" -> ToString(v.i)
      [] v.t = "string" -> ToValidUTF8(v.s)
      [] OTHER -> ""

\* the map x.MarshalXML hands to dictionary.MarshalXML: the data without
\* the stack, the cause itself in place of its text when it is an
\* xml.Marshaler
XMLData(a) ==
    LET d == data(a, {keyStack})
        reason == heap[a].reason
    IN  IF reason.k # "nil" /\ IsXMLMarshaler(reason)
        THEN [k \in {keyCause} |-> ListVal(<<>>)] @@ d
        ELSE d

\* the orders in which a range over a map can visit its keys
Orders(S) ==
    {f \in [1..Cardinality(S) -> S] :
        \A i, j \in 1..Cardinality(S) : f[i] = f[j] => i = j}

\* dictionary.MarshalXML: the start token, one element for each entry in
\* the order of the range, the end token.  The writer under the encoder
\* fails from its failAt-th token on (0: never), the encoder keeps the
\* first error of its writer and returns it from every later call; the
\* result of encoder.Encode is dropped, the one of the last EncodeToken is
\* returned (entryErr: an encoder.Encode returned an error).
DictionaryMarshalXML(d, order, failAt) ==
    LET n == Len(order)
        entryErr == failAt >= 2 /\ failAt <= n + 1
        err == failAt # 0
    IN  [ok |-> ~err,
         entryErr |-> entryErr,
         out |-> IF err
                 THEN JFail
                 ELSE JObj([i \in 1..n |->
                              JMember(pascal(order[i]),
                                      JStr(CharData(d[order[i]])))])]

\* an encoding made: by which call, of which value, and what came back
Encoded(op, recv, ok, entryErr, out) ==
    [op |-> op, recv |-> recv, ok |-> ok, entryErr |-> entryErr, out |-> out]

EncodeCalled ==
    /\ Called
    /\ UNCHANGED <<heap, arrays, ret, errs, conc, callers, trace>>

\* json.Marshal(x) for an Error x
ErrorJSON ==
    \E a \in Addrs :
        LET out == MarshalJSON(a)
        IN  /\ EncodeCalled
            /\ enc' = Append(enc, Encoded("json", Ptr(a), out.t = "obj",
                                          FALSE, out))

\* xml.NewEncoder(w).Encode(x) for an Error x
ErrorXML ==
    \E a \in Addrs :
        \E order \in Orders(DOMAIN XMLData(a)) :
            \E failAt \in 0..(Len(order) + 2) :
                LET r == DictionaryMarshalXML(XMLData(a), order, failAt)
                IN  /\ EncodeCalled
                    /\ enc' = Append(enc, Encoded("xml", Ptr(a), r.ok,
                                                  r.entryErr, r.out))

\* json.Marshal(errs) for the collector
CollectorJSON ==
    LET out == CollectorMarshalJSON(errs, {})
    IN  /\ EncodeCalled
        /\ enc' = Append(enc, Encoded("json", Coll(errs), out.t = "arr",
                                      FALSE, out))

\* the errors the encoding client has built: an inner error at address 1
\* and, at address 2, an error of any code, message, details, context and
\* cause with at most MaxKeys entries to encode
EncodeCodes == {-1, 0, 200}
EncodeMessages == {"", "failed", BadText}
EncodeDetails == {NilSlice, [arr |-> 1, len |-> 2]}
EncodeCauses ==
    {NilErr, Plain(1), Ptr(1), Rejecting, Coll(<<Plain(1), Ptr(1)>>)}
EncodeContexts ==
    {NilMap, MapOf(UserCtx),
     MapOf([key \in {keyCode} |-> StrVal("E42")]),
     MapOf([key \in {keyCause} |-> StrVal("hidden")]),
     MapOf([key \in {keyStack} |-> StrVal("none")])}
EncodeCollectors == {<<Plain(1), Ptr(1)>>, <<Plain(2), Rejecting>>}

InitEnc ==
    /\ arrays = <<<<"x", "z">>>>
    /\ \E code \in EncodeCodes, msg \in EncodeMessages,
          details \in EncodeDetails, context \in EncodeContexts,
          reason \in EncodeCauses :
          /\ heap = <<NewError(404, 0, "failed", NilSlice, NewStackTrace(1),
                               NilMap, NilErr),
                      NewError(code, 0, msg, details, NewStackTrace(2),
                               context, reason)>>
          /\ Cardinality((IF code # 0 THEN {keyCode} ELSE {})
                    \cup (IF msg # "" THEN {keyMessage} ELSE {})
                    \cup (IF details.len > 0 THEN {keyDetails} ELSE {})
                    \cup (IF reason.k # "nil" THEN {keyCause} ELSE {})
                    \cup DOMAIN context.m) <= MaxKeys
    /\ errs \in EncodeCollectors
    /\ calls = 0
    /\ limit = MaxEncode
    /\ ret = NoRet
    /\ conc = NoThreads
    /\ enc = <<>>
    /\ callers = <<>>
    /\ trace = NilStack

NextEnc == ErrorJSON \/ ErrorXML \/ CollectorJSON

SpecEnc == InitEnc /\ [][NextEnc]_vars

(***************************************************************************)
(* C12.  The structured encoding of an Error holds a well-known key        *)
(* exactly when its field is set.                                          *)
(***************************************************************************)
WellKnown == {keyCode, keyMessage, keyDetails, keyStack, keyCause}

\* the name under which an encoding holds a key, and the names it holds
KeyName(op, k) == IF op = "xml" THEN pascal(k) ELSE k
KeysOf(e) == {e.out.l[j].s : j \in 1..Len(e.out.l)}

\* the encodings of an Error that returned a document
ErrorEncodings ==
    {i \in 1..Len(enc) : enc[i].recv.k = "ptr" /\ enc[i].ok}

RECURSIVE DocKeys(_)
\* the keys of a JSON document, at every depth
DocKeys(doc) ==
    IF doc.t = "obj"
    THEN {doc.l[j].s : j \in 1..Len(doc.l)}
         \cup UNION {DocKeys(doc.l[j].l[1]) : j \in 1..Len(doc.l)}
    ELSE IF doc.t = "arr"
    THEN UNION {DocKeys(doc.l[j]) : j \in 1..Len(doc.l)}
    ELSE {}

\* C13: every error of the model is built with a captured stack, and the
\* JSON of an Error or of a collector has no error_stack key at any depth;
\* the error with code 200, a message and a plain cause, and nothing else,
\* is encoded as exactly error_cause, error_code, error_message.
C13_NoStackInJSON ==
    \A i \in 1..Len(enc) :
        (enc[i].op = "json" /\ enc[i].ok) =>
            /\ keyStack \notin DocKeys(enc[i].out)
            /\ (/\ enc[i].recv = Ptr(2)
                /\ ~heap[2].stack.nil
                /\ heap[2].code = 200 /\ heap[2].msg = "failed"
                /\ heap[2].reason = Plain(1)
                /\ heap[2].details.len = 0
                /\ heap[2].context.nil)
               => enc[i].out = JObj(<<JMember(keyCause, JStr("oh no")),
                                      JMember(keyCode, JNum(200)),
                                      JMember(keyMessage, JStr("failed"))>>)

\* the error of the example, which has a captured stack, is encoded
C13_Witness ==
    /\ Len(enc) = 1
    /\ enc[1] = Encoded("json", Ptr(2), TRUE, FALSE,
                        JObj(<<JMember(keyCause, JStr("oh no")),
                               JMember(keyCode, JNum(200)),
                               JMember(keyMessage, JStr("failed"))>>))
    /\ ~heap[2].stack.nil /\ Len(heap[2].stack.frames) > 0

(***************************************************************************)
(* C14.  What is nested in a JSON encoding.                                *)
(***************************************************************************)
RECURSIVE NestedForm(_)
\* the document the claim expects for a cause or a child: the encoding of
\* the error itself when it is an Error or a collector, its Error() text
\* otherwise
NestedForm(err) ==
    CASE err.k = "ptr" -> MarshalJSON(err.n)
      [] err.k = "coll" ->
           JArr([j \in 1..Len(err.items) |-> NestedForm(err.items[j])])
      [] OTHER -> JStr(ToValidUTF8(ErrorText(err, {})))

Held(e, k) == Member(e.out, KeyName(e.op, k))
Holding(op, v) == IF op = "xml" THEN JStr(CharData(v)) ELSE JSONValue(v)

\* C15: every entry of the context of an encoded Error is in the top-level
\* mapping, under its key and with its value, also when the key is one of
\* the well-known keys.
C15_ContextMerged ==
    \A i \in ErrorEncodings :
        LET m == heap[enc[i].recv.n].context.m
        IN  \A k \in DOMAIN m :
                /\ KeyName(enc[i].op, k) \in KeysOf(enc[i])
                /\ Held(enc[i], k) = Holding(enc[i].op, m[k])

\* the same for the entries that are not named error_stack, and not named
\* error_cause when the cause is put in place of its text: what the code
\* does keep
C15_ContextMergedButStack ==
    \A i \in ErrorEncodings :
        LET x == heap[enc[i].recv.n]
            m == x.context.m
            replaced == IF enc[i].op = "xml"
                        THEN IsXMLMarshaler(x.reason)
                        ELSE IsJSONMarshaler(x.reason)
        IN  \A k \in DOMAIN m :
                (k # keyStack /\ ~(k = keyCause /\ replaced)) =>
                    /\ KeyName(enc[i].op, k) \in KeysOf(enc[i])
                    /\ Held(enc[i], k) = Holding(enc[i].op, m[k])

\* an error with code 200 and the context entry error_code = "E42" is
\* encoded with the entry in place of the code
C15_Witness ==
    /\ Len(enc) = 1
    /\ enc[1].op = "json" /\ enc[1].ok /\ enc[1].recv = Ptr(2)
    /\ heap[2].code = 200
    /\ heap[2].context = MapOf([key \in {keyCode} |-> StrVal("E42")])
    /\ Held(enc[1], keyCode) = JStr("E42")

(***************************************************************************)
(* C16.  Encoding an Error and decoding the JSON into an ErrorData.        *)
(***************************************************************************)
\* an Error with a code and a message set and nothing else, and one with
\* nothing set
OnlyCodeAndMessage(x) ==
    /\ x.code # 0 /\ x.msg # ""
    /\ x.details.len = 0 /\ x.reason.k = "nil" /\ x.context.nil

EmptyState(x) ==
    /\ x.code = 0 /\ x.msg = ""
    /\ x.details.len = 0 /\ x.reason.k = "nil" /\ x.context.nil

\* C16: the JSON of an Error with only a code and a message decodes into an
\* ErrorData with the same code and the same message, and the encoding of
\* an Error with nothing set has none of the well-known keys.
C16_RoundTrip ==
    \A i \in ErrorEncodings :
        LET x == heap[enc[i].recv.n]
        IN  /\ (enc[i].op = "json" /\ OnlyCodeAndMessage(x)) =>
                   /\ Unmarshal(enc[i].out).ok
                   /\ Unmarshal(enc[i].out).Code = x.code
                   /\ Unmarshal(enc[i].out).Message = x.msg
            /\ EmptyState(x) =>
                   \A k \in WellKnown :
                       KeyName(enc[i].op, k) \notin KeysOf(enc[i])

\* the same for the codes that are positive and the messages that are
\* valid UTF-8: what the code does reproduce
C16_RoundTripPositive ==
    \A i \in ErrorEncodings :
        LET x == heap[enc[i].recv.n]
        IN  /\ (/\ enc[i].op = "json" /\ OnlyCodeAndMessage(x)
                /\ x.code > 0 /\ x.msg # BadText) =>
                   /\ Unmarshal(enc[i].out).ok
                   /\ Unmarshal(enc[i].out).Code = x.code
                   /\ Unmarshal(enc[i].out).Message = x.msg
            /\ EmptyState(x) =>
                   \A k \in WellKnown :
                       KeyName(enc[i].op, k) \notin KeysOf(enc[i])

\* the error with code 200 and the message "failed" is encoded and decodes
\* into the same two, and the error with nothing set is encoded as XML
C16_Witness ==
    /\ Len(enc) = 1
    /\ enc[1].recv = Ptr(2) /\ enc[1].ok
    /\ \/ /\ enc[1].op = "json"
          /\ OnlyCodeAndMessage(heap[2])
          /\ Unmarshal(enc[1].out) = [ok |-> TRUE, Code |-> 200,
                                      Message |-> "failed"]
       \/ /\ enc[1].op = "xml"
          /\ EmptyState(heap[2])
          /\ KeysOf(enc[1]) = {}

(***************************************************************************)
(* C17.  A failure inside an encoding is the failure of the encoding.      *)
(***************************************************************************)
RECURSIVE Rejects(_)
\* the errors whose own JSON encoding returns an error: the rejecting
\* error, and a collector with such a child
Rejects(err) ==
    \/ err.k = "rejects"
    \/ /\ err.k = "coll"
       /\ \E j \in 1..Len(err.items) : Rejects(err.items[j])

Rank(name) == CHOOSE r \in 1..Len(KeyOrder) : KeyOrder[r] = name

\* C18: the entries of every JSON and XML encoding of an Error are in the
\* sorted order of their keys, and two encodings of the same Error by the
\* same encoder are the same sequence of entries.
C18_SortedKeys ==
    /\ \A i \in ErrorEncodings :
           \A j \in 1..(Len(enc[i].out.l) - 1) :
               Rank(enc[i].out.l[j].s) < Rank(enc[i].out.l[j + 1].s)
    /\ \A i, j \in ErrorEncodings :
           (enc[i].op = enc[j].op /\ enc[i].recv = enc[j].recv)
               => enc[i].out = enc[j].out

\* the same for JSON alone: what the code does keep
C18_SortedKeysJSON ==
    /\ \A i \in ErrorEncodings :
           enc[i].op = "json" =>
               \A j \in 1..(Len(enc[i].out.l) - 1) :
                   Rank(enc[i].out.l[j].s) < Rank(enc[i].out.l[j + 1].s)
    /\ \A i, j \in ErrorEncodings :
           (enc[i].op = "json" /\ enc[j].op = "json"
              /\ enc[i].recv = enc[j].recv)
               => enc[i].out = enc[j].out

\* an Error with three entries is encoded as JSON twice
C18_Witness ==
    /\ Len(enc) = 2
    /\ enc[1].op = "json" /\ enc[1].ok /\ enc[1].recv = Ptr(2)
    /\ enc[2] = enc[1]
    /\ Len(enc[1].out.l) = 3

(***************************************************************************)
(* Capturing a stack: a client function that calls NewStackTrace and       *)
(* NewStackTraceAt itself and keeps the result in a StackTrace variable.   *)
(* callers is the stack of its goroutine, its own frame first; a frame is  *)
(* a number, the frames of the package are negative.                       *)
(***************************************************************************)
MaxDepth == 34
MaxStackOps == 3

\* the size of the buffer NewStackTrace hands to runtime.Callers
depth == 32

FrameCallers == -1
FrameNewStackTrace == -2
FrameNewStackTraceAt == -3

Min(a, b) == IF a <= b THEN a ELSE b

\* runtime.Callers with a buffer that holds every frame
RuntimeCallersAll(skip, stack) == SubSeq(stack, skip + 1, Len(stack))

\* runtime.Callers(skip, pcs[:]) on a goroutine whose stack, from
\* runtime.Callers itself outwards, is stack: the frames after the first
\* skip ones, as many as the buffer holds
RuntimeCallers(skip, stack) ==
    SubSeq(stack, skip + 1, Min(Len(stack), skip + depth))

\* NewStackTrace() called by the function whose frame is the first of cs
NewStackTraceIn(cs) ==
    StackOf(RuntimeCallers(3, <<FrameCallers, FrameNewStackTrace>> \o cs))

\* NewStackTraceAt that never cuts
NewStackTraceAtWhole(n, cs) == NewStackTraceIn(<<FrameNewStackTraceAt>> \o cs)

\* NewStackTraceAt(n) called by the function whose frame is the first of cs
NewStackTraceAt(n, cs) ==
    LET m == n + 1
        stack == NewStackTraceIn(<<FrameNewStackTraceAt>> \o cs).frames
        count == Len(stack)
    IN  StackOf(IF m > 0 /\ m < count
                THEN SubSeq(stack, m + 1, count)
                ELSE stack)

\* stack.Skip(n) that cuts whenever n is positive
SkipToEnd(stack, n) ==
    LET count == Len(stack.frames)
    IN  IF n > 0
        THEN [stack EXCEPT !.frames = SubSeq(stack.frames, n + 1, count)]
        ELSE stack

\* stack.Skip(n): the StackTrace the variable holds afterwards
Skip(stack, n) ==
    LET count == Len(stack.frames)
    IN  IF n > 0 /\ n < count
        THEN [stack EXCEPT !.frames = SubSeq(stack.frames, n + 1, count)]
        ELSE stack

\* what the last call of the capturing client was: its argument, the
\* StackTrace variable before it and after it, the trace as it was
\* captured, and the stack of the goroutine at the call
StackRet(op, n, before, res, orig) ==
    [op |-> op, n |-> n, before |-> before, res |-> res, orig |-> orig,
     at |-> callers]

AtArgs == {-2, -1, 0, 1, 2}
SkipArgs == {-1, 0, 1, 2, 31, 40}

StackCalled ==
    /\ Called
    /\ UNCHANGED <<heap, arrays, errs, conc, enc, callers>>

\* the client function calls a function, which is the client from then on
Enter ==
    /\ Len(callers) < MaxDepth
    /\ callers' = <<Len(callers) + 1>> \o callers
    /\ UNCHANGED <<heap, arrays, calls, limit, ret, errs, conc, enc, trace>>

\* stack := flaw.NewStackTrace()
Capture ==
    /\ StackCalled
    /\ trace' = NewStackTraceIn(callers)
    /\ ret' = StackRet("NewStackTrace", 0, trace, trace', trace')

\* stack := flaw.NewStackTraceAt(n)
CaptureAt ==
    \E n \in AtArgs :
        /\ StackCalled
        /\ trace' = NewStackTraceAt(n, callers)
        /\ ret' = StackRet("NewStackTraceAt", n, trace, trace', trace')

\* stack.Skip(n) on the variable
SkipFrames ==
    \E n \in SkipArgs :
        /\ StackCalled
        /\ trace' = Skip(trace, n)
        /\ ret' = StackRet("Skip", n, trace, trace', ret.orig)

\* a goroutine starts the client function: below it is runtime.goexit
InitStack ==
    /\ callers = <<2, 1>>
    /\ heap = <<>>
    /\ arrays = <<>>
    /\ calls = 0
    /\ limit = MaxStackOps
    /\ ret = StackRet("", 0, NilStack, NilStack, NilStack)
    /\ errs = <<>>
    /\ conc = NoThreads
    /\ enc = <<>>
    /\ trace = NilStack

NextStack == Enter \/ Capture \/ CaptureAt \/ SkipFrames

SpecStack == InitStack /\ [][NextStack]_vars

(***************************************************************************)
(* C19.  Skip.                                                             *)
(***************************************************************************)
\* whether s is what is left of t after its first k elements
IsSuffix(s, t) ==
    /\ Len(s) <= Len(t)
    /\ s = SubSeq(t, Len(t) - Len(s) + 1, Len(t))

\* C19: after stack.Skip(n) the trace is the old one without its first n
\* frames when 0 < n < len, and the old one otherwise; it is always a
\* suffix of the old one and of the trace as it was captured, never longer,
\* and empty only if the old one was.
C19_Skip ==
    ret.op = "Skip" =>
        LET old == ret.before.frames
            new == ret.res.frames
            n == ret.n
        IN  /\ trace = ret.res
            /\ (0 < n /\ n < Len(old)) =>
                   /\ Len(new) = Len(old) - n
                   /\ \A j \in 1..Len(new) : new[j] = old[j + n]
            /\ (n <= 0 \/ n >= Len(old)) => new = old
            /\ IsSuffix(new, old) /\ IsSuffix(new, ret.orig.frames)
            /\ Len(new) <= Len(old) /\ Len(new) <= Len(ret.orig.frames)
            /\ Len(old) > 0 => Len(new) > 0

\* a captured trace of 32 frames has lost its first frame and then 31 are
\* not skipped, as only 31 are left
C19_Witness ==
    /\ ret.op = "Skip" /\ ret.n = 31
    /\ Len(ret.orig.frames) = depth
    /\ Len(ret.before.frames) = depth - 1
    /\ ret.before.frames = SubSeq(ret.orig.frames, 2, depth)
    /\ ret.res = ret.before

(***************************************************************************)
(* C20.  NewStackTraceAt against NewStackTrace.                            *)
(***************************************************************************)
\* C20: NewStackTraceAt(n) returns what NewStackTrace() returns at the same
\* place without its first n frames, for 0 <= n < len(NewStackTrace()), and
\* NewStackTrace() is one frame longer than NewStackTraceAt(1).
C20_TraceAt ==
    ret.op = "NewStackTraceAt" =>
        LET whole == NewStackTraceIn(ret.at).frames
            n == ret.n
        IN  /\ (0 <= n /\ n < Len(whole)) =>
                   ret.res.frames = SubSeq(whole, n + 1, Len(whole))
            /\ n = 1 => Len(whole) = Len(ret.res.frames) + 1

\* the same where the stack of the goroutine, NewStackTraceAt included,
\* fits the buffer: what the code does keep
C20_TraceAtWithinBound ==
    (ret.op = "NewStackTraceAt" /\ Len(ret.at) <= depth) =>
        LET whole == NewStackTraceIn(ret.at).frames
            n == ret.n
        IN  (0 <= n /\ n < Len(whole)) =>
                /\ ret.res.frames = SubSeq(whole, n + 1, Len(whole))
                /\ n = 1 => Len(whole) = Len(ret.res.frames) + 1

\* NewStackTraceAt(1) is called ten frames deep
C20_Witness ==
    /\ ret.op = "NewStackTraceAt" /\ ret.n = 1
    /\ Len(ret.at) = 10
    /\ ret.res.frames = <<8, 7, 6, 5, 4, 3, 2, 1>>
    /\ NewStackTraceIn(ret.at).frames = <<9, 8, 7, 6, 5, 4, 3, 2, 1>>

HasAccessors(err) == err.k = "ptr"

\* Code that asks the first Composite Error of the chain
CodeOfChain(err) ==
    LET found == ErrorsAs(err, "ptr", {})
    IN  IF found.st = "ok" THEN Code(found.v.n) ELSE 0

\* flaw.Code(err), flaw.Status(err), flaw.Cause(err), flaw.Message(err),
\* flaw.Details(err), flaw.Context(err)
CodeOf(err) == IF HasAccessors(err) THEN Code(err.n) ELSE 0
StatusOf(err) == IF HasAccessors(err) THEN Status(err.n) ELSE 0
CauseOf(err) == IF HasAccessors(err) THEN Cause(err.n) ELSE err
MessageOf(err) == IF HasAccessors(err) THEN Message(err.n) ELSE ""
DetailsOf(err) == IF HasAccessors(err) THEN Details(err.n) ELSE <<>>
ContextOf(err) ==
    IF HasAccessors(err)
    THEN Context(err.n)
    ELSE [returns |-> TRUE, m |-> EmptyMap]

(***************************************************************************)
(* C22.  The accessor functions probe the value itself.                    *)
(***************************************************************************)
\* the values a client can hand to an accessor function: nothing, a plain
\* error, each Composite Error, and each of them wrapped by a foreign
\* error or held by a collector
ProbeArgs ==
    {NilErr, Plain(1)}
    \cup {Ptr(a) : a \in Addrs}
    \cup {Wrapped(1, Ptr(a)) : a \in Addrs}
    \cup {Coll(<<Ptr(a)>>) : a \in Addrs}

\* C22: on a Composite Error the six functions return its own code, status,
\* cause (nil when it has none), message, details and Context(); on any
\* other value, also one that wraps or holds a Composite Error, they
\* return 0, 0, the value itself, "", an empty list and an empty map.
C22_AccessorsProbeValue ==
    \A err \in ProbeArgs :
        IF err.k = "ptr"
        THEN /\ CodeOf(err) = heap[err.n].code
             /\ StatusOf(err) = heap[err.n].status
             /\ CauseOf(err) = heap[err.n].reason
             /\ heap[err.n].reason = NilErr => CauseOf(err) # err
             /\ MessageOf(err) = heap[err.n].msg
             /\ DetailsOf(err) = Elems(arrays, heap[err.n].details)
             /\ ContextOf(err) = Context(err.n)
        ELSE /\ CodeOf(err) = 0
             /\ StatusOf(err) = 0
             /\ CauseOf(err) = err
             /\ MessageOf(err) = ""
             /\ DetailsOf(err) = <<>>
             /\ ContextOf(err) = [returns |-> TRUE, m |-> EmptyMap]

\* a Composite Error with code 404, a message and no cause exists: the
\* functions give 404 and nil for it, and 0 and the wrapper itself for the
\* foreign error that wraps it
C22_Witness ==
    \E a \in Addrs :
        /\ heap[a].code = 404 /\ heap[a].msg # "" /\ heap[a].reason = NilErr
        /\ CodeOf(Ptr(a)) = 404 /\ CauseOf(Ptr(a)) = NilErr
        /\ CodeOf(Wrapped(1, Ptr(a))) = 0
        /\ CauseOf(Wrapped(1, Ptr(a))) = Wrapped(1, Ptr(a))

(***************************************************************************)
(* C23.  The stack and the context of a Composite Error are never nil.     *)
(***************************************************************************)
\* C23: every Composite Error built by Errorf, Wrap, the With* methods and
\* the in-place Wrap has a stack that is not nil and a context that is a
\* map, not nil; the error WithContext(nil) returns (ret.str = "nil") has
\* an empty map.
C23_StackAndContextSet ==
    /\ \A a \in Addrs : ~heap[a].stack.nil /\ ~heap[a].context.nil
    /\ (ret.op = "WithContext" /\ ret.str = "nil") =>
           heap[ret.res].context = MapOf(EmptyMap)

\* an error whose context has the user entry is given WithContext(nil)
C23_Witness ==
    /\ ret.op = "WithContext" /\ ret.str = "nil"
    /\ heap[ret.recv].context = MapOf(UserCtx)
    /\ heap[ret.res].context = MapOf(EmptyMap)
    /\ ~heap[ret.res].stack.nil

PlainWithOps ==
    {"WithCode", "WithStatus", "WithMessage", "WithDetails", "WithContext"}

\* C25: the value WithCode, WithStatus, WithMessage, WithDetails or
\* WithContext returns has the stack and the cause of the receiver; the
\* value WithError returns has the given cause and the stack of the place
\* of this call; the in-place Wrap gives the receiver the given cause and
\* the stack of the place of this call, leaves its code, status, message,
\* details and context as they were, and changes no other error.
C25_StackRecapture ==
    [][calls' = calls + 1 =>
         /\ ret'.op \in PlainWithOps =>
               /\ heap'[ret'.res].stack = heap[ret'.recv].stack
               /\ heap'[ret'.res].reason = heap[ret'.recv].reason
         /\ ret'.op = "WithError" =>
               /\ heap'[ret'.res].reason = ret'.err
               /\ heap'[ret'.res].stack = NewStackTrace(calls')
               /\ heap'[ret'.res].stack # heap[ret'.recv].stack
         /\ ret'.op = "ErrorWrap" =>
               /\ heap'[ret'.recv].reason = ret'.err
               /\ heap'[ret'.recv].stack = NewStackTrace(calls')
               /\ heap'[ret'.recv].stack # heap[ret'.recv].stack
               /\ heap' = [heap EXCEPT ![ret'.recv].reason = ret'.err,
                                       ![ret'.recv].stack =
                                           NewStackTrace(calls')]
               /\ arrays' = arrays]_vars

\* an error with a code and a cause is wrapped in place: it has the new
\* cause and the stack of the third call, and still its code
C25_Witness ==
    /\ ret.op = "ErrorWrap" /\ calls = 3
    /\ heap[ret.recv].code = 404
    /\ heap[ret.recv].reason = ret.err /\ ret.err # NilErr
    /\ heap[ret.recv].stack = NewStackTrace(3)

(***************************************************************************)
(* C26.  ErrorCollector.Is, child by child.                                *)
(***************************************************************************)
\* the targets of C6, a collector as long as errs of other children, and
\* the collector of what the children of errs unwrap to
PairedTargets ==
    IsTargets
      \cup {Coll([i \in 1..Len(errs) |-> Plain(2)])}
      \cup {Coll([i \in 1..Len(errs) |-> ErrorsUnwrap(errs[i])])}

\* C26: errs.Is(target) is true exactly when errs is as long as the target
\* (a target that is no collector counting as the collector of itself)
\* and errors.Is holds of every child and the target's child at the same
\* index; it is false when the lengths differ, so for a target that is no
\* collector whenever errs has no child or more than one, and when the
\* first child that does not match returns false.
C26_IsByPosition ==
    \A t \in PairedTargets :
        LET others == IF t.k = "coll" THEN t.items ELSE <<t>>
            r == CollectorIs(errs, t, {})
            same == Len(errs) = Len(others)
        IN  /\ r = "ok" <=>
                  /\ same
                  /\ \A i \in 1..Len(errs) :
                         ErrorsIs(errs[i], others[i], {}) = "ok"
            /\ r = "no" <=>
                  \/ ~same
                  \/ \E i \in 1..Len(errs) :
                         /\ ErrorsIs(errs[i], others[i], {}) = "no"
                         /\ \A j \in 1..(i - 1) :
                                ErrorsIs(errs[j], others[j], {}) = "ok"
            /\ (t.k # "coll" /\ Len(errs) # 1) => r = "no"

\* a collector of a plain error and a Composite Error with a cause: it is
\* the collector of the plain error and that cause, it is not a collector
\* of two other errors, nor its first child alone
C26_Witness ==
    /\ Len(errs) = 2
    /\ errs[1] = Plain(2) /\ errs[2].k = "ptr"
    /\ Cause(errs[2].n) = Plain(1)
    /\ CollectorIs(errs, Coll(<<Plain(2), Plain(1)>>), {}) = "ok"
    /\ CollectorIs(errs, Coll(<<Plain(2), Plain(2)>>), {}) = "no"
    /\ CollectorIs(errs, Plain(2), {}) = "no"

(***************************************************************************)
(* C27.  A collector as the cause in composite rendering.                  *)
(***************************************************************************)
\* the position of the first write of text in ws, 0 when there is none
IndexOf(ws, text) ==
    IF \E i \in 1..Len(ws) : ws[i] = text
    THEN CHOOSE i \in 1..Len(ws) :
             ws[i] = text /\ \A j \in 1..(i - 1) : ws[j] # text
    ELSE 0

\* what verbose rendering writes for the cause of a: the writes after the
\* label of the cause, its tab and its space, up to the separator before
\* the label of the stack
CauseWrites(a) ==
    LET ws == FormatWrites(a, TRUE, {a}).buf
        from == IndexOf(ws, "cause:") + 3
        to == IndexOf(ws, "stack:") - 2
    IN  SubSeq(ws, from, to)

\* C27: when the cause of a Composite Error is an ErrorCollector, verbose
\* rendering ends the line of the label of the cause, which it does not do
\* for another cause, and writes the children of the collector as its
\* bulleted items, one bullet for each child.
C27_CollectorCause ==
    \A a \in Addrs :
        (heap[a].reason.k # "nil" /\ ~Loops(Ptr(a), {})) =>
           LET ws == CauseWrites(a)
               bullets == {i \in 1..Len(ws) : ws[i] = " --- "}
           IN  IF heap[a].reason.k = "coll"
               THEN /\ ws # <<>> /\ Head(ws) = "\n"
                    /\ Cardinality(bullets) = Len(heap[a].reason.items)
               ELSE /\ bullets = {}
                    /\ \A i \in 1..Len(ws) : ws[i] # "\n"

\* what the code does: the cause, collector or not, is written right after
\* its label as one text, its compact form, which for a collector is the
\* bracketed list of its children
C27_CauseIsCompact ==
    \A a \in Addrs :
        (heap[a].reason.k # "nil" /\ ~Loops(Ptr(a), {})) =>
           CauseWrites(a) = <<ErrorText(heap[a].reason, {a})>>

\* a Composite Error whose cause is a collector of two errors, rendered
\* with its cause as the bracketed list
C27_Witness ==
    \E a \in Addrs :
        /\ heap[a].reason = Coll(<<Plain(1), Plain(2)>>)
        /\ CauseWrites(a) = <<"[" \o PlainMsg(1) \o ", " \o PlainMsg(2) \o "]">>

(***************************************************************************)
(* Termination of the operations that walk the cause chain.  Every walk is *)
(* a recursion through Error() of the cause; it is followed here for a     *)
(* bounded number of nested calls.                                         *)
(***************************************************************************)
MaxFuel == 8

\* a renderer that gives up, and returns, at its depth limit
RECURSIVE ErrorReturnsCut(_, _)
ErrorReturnsCut(err, fuel) ==
    IF err.k = "nil"
    THEN TRUE
    ELSE IF fuel = 0
    THEN TRUE
    ELSE CASE err.k = "ptr" -> ErrorReturnsCut(heap[err.n].reason, fuel - 1)
           [] err.k \in {"coll", "wrap"} ->
                \A i \in 1..Len(err.items) :
                    ErrorReturnsCut(err.items[i], fuel - 1)
           [] OTHER -> TRUE

\* err.Error() returns within fuel nested calls (nil has no Error() to
\* call and is printed as it is): Error.Error formats the
\* receiver with the verb v, which formats the cause with the verb v; a
\* collector formats every child; a foreign wrapper asks the error inside
RECURSIVE ErrorReturns(_, _)
ErrorReturns(err, fuel) ==
    IF err.k = "nil"
    THEN TRUE
    ELSE IF fuel = 0
    THEN FALSE
    ELSE CASE err.k = "ptr" -> ErrorReturns(heap[err.n].reason, fuel - 1)
           [] err.k \in {"coll", "wrap"} ->
                \A i \in 1..Len(err.items) :
                    ErrorReturns(err.items[i], fuel - 1)
           [] OTHER -> TRUE

\* x.data returns within fuel nested calls: it asks the cause for Error()
DataReturns(a, fuel) ==
    heap[a].reason.k = "nil" \/ ErrorReturns(heap[a].reason, fuel)

\* MarshalJSON and MarshalXML of x return within fuel nested calls: both
\* begin with x.data; MarshalJSON then hands a cause that is a
\* json.Marshaler to the encoder, which calls its MarshalJSON
RECURSIVE EncodeReturns(_, _, _)
EncodeReturns(err, json, fuel) ==
    IF fuel = 0
    THEN FALSE
    ELSE CASE err.k = "ptr" ->
                /\ DataReturns(err.n, fuel - 1)
                /\ (json /\ heap[err.n].reason.k \in {"ptr", "coll"}) =>
                       EncodeReturns(heap[err.n].reason, json, fuel - 1)
           [] err.k = "coll" ->
                \A i \in 1..Len(err.items) :
                    IF err.items[i].k \in {"ptr", "coll"}
                    THEN EncodeReturns(err.items[i], json, fuel - 1)
                    ELSE ErrorReturns(err.items[i], fuel - 1)
           [] OTHER -> TRUE

(***************************************************************************)
(* C28.  No cycle detection.                                               *)
(***************************************************************************)
\* C28: the in-place Wrap attaches any cause, one that closes a cycle
\* included, and once the causes below a Composite Error run into a cycle
\* its Error(), its Context() and its JSON and XML encodings do not
\* return, however deep the recursion is followed.
C28_NoCycleDetection ==
    /\ ret.op = "ErrorWrap" => heap[ret.recv].reason = ret.err
    /\ \A a \in Addrs :
          Loops(Ptr(a), {}) =>
             /\ ~Context(a).returns
             /\ \A fuel \in 0..MaxFuel :
                   /\ ~ErrorReturns(Ptr(a), fuel)
                   /\ ~DataReturns(a, fuel)
                   /\ ~EncodeReturns(Ptr(a), TRUE, fuel)
                   /\ ~EncodeReturns(Ptr(a), FALSE, fuel)

\* e.Wrap(x) was called with another error x whose cause is e: the cycle
\* of the two is closed, and neither renders
C28_Witness ==
    /\ ret.op = "ErrorWrap"
    /\ ret.err.k = "ptr" /\ ret.err.n # ret.recv
    /\ heap[ret.err.n].reason = Ptr(ret.recv)
    /\ heap[ret.recv].reason = ret.err
    /\ ~ErrorReturns(Ptr(ret.recv), MaxFuel)
    /\ ~ErrorReturns(ret.err, MaxFuel)

(***************************************************************************)
(* The client that never calls the in-place Wrap: it creates errors,       *)
(* wraps with the package-level Wrap, derives errors with the With*        *)
(* builders and collects them in errs.                                     *)
(***************************************************************************)
MaxBuild == 3

InitBuild ==
    /\ heap = <<>>
    /\ arrays = <<>>
    /\ calls = 0
    /\ limit = MaxBuild
    /\ ret = NoRet
    /\ errs = <<>>
    /\ conc = NoThreads
    /\ enc = <<>>
    /\ callers = <<>>
    /\ trace = NilStack

NextBuild ==
    \/ Errorf
    \/ Wrap
    \/ WithError
    \/ WithMessage
    \/ WithDetails
    \/ WithCode
    \/ WithStatus
    \/ WithContext
    \/ CollectorWrap

SpecBuild == InitBuild /\ [][NextBuild]_vars

(***************************************************************************)
(* C29.  Without the in-place Wrap there is no cycle.                      *)
(***************************************************************************)
\* the addresses of the Composite Errors an error value holds: itself, or
\* those of its children
RECURSIVE PointersIn(_)
PointersIn(err) ==
    CASE err.k = "ptr" -> {err.n}
      [] err.k \in {"coll", "wrap"} ->
           UNION {PointersIn(err.items[i]) : i \in 1..Len(err.items)}
      [] OTHER -> {}

\* C29: in every state reached with Errorf, the package-level Wrap, the
\* With* builders and ErrorCollector.Wrap alone, the cause of every
\* Composite Error holds only errors created before it, so no error is
\* reached from itself, and Error(), Context() and the JSON and XML
\* encodings of every error and of the collector return.
C29_AcyclicWithoutWrap ==
    /\ \A a \in Addrs :
          /\ \A b \in PointersIn(heap[a].reason) : b < a
          /\ ~Loops(Ptr(a), {})
          /\ Context(a).returns
          /\ ErrorReturns(Ptr(a), MaxFuel)
          /\ DataReturns(a, MaxFuel)
          /\ EncodeReturns(Ptr(a), TRUE, MaxFuel)
          /\ EncodeReturns(Ptr(a), FALSE, MaxFuel)
    /\ ~Loops(Coll(errs), {})
    /\ ErrorReturns(Coll(errs), MaxFuel)
    /\ EncodeReturns(Coll(errs), TRUE, MaxFuel)

\* e.WithError(e): the error returned has e as its cause, e itself is as it
\* was, and the result renders in two nested calls and no fewer
C29_Witness ==
    /\ ret.op = "WithError"
    /\ ret.err = Ptr(ret.recv)
    /\ ret.res # ret.recv
    /\ heap[ret.res].reason = Ptr(ret.recv)
    /\ heap[ret.recv].reason.k = "nil"
    /\ ErrorReturns(Ptr(ret.res), 2)
    /\ ~ErrorReturns(Ptr(ret.res), 1)

(***************************************************************************)
(* C30.  Which Composite Error the package-level Wrap returns.             *)
(***************************************************************************)
\* the address of the Composite Error of err in chain order, 0 when there
\* is none: err itself; for a collector the one of its lowest-index child
\* that has one; otherwise the one of what err unwraps to
RECURSIVE Chosen(_)
Chosen(err) ==
    CASE err.k = "ptr" -> err.n
      [] err.k = "coll" ->
           LET has == {i \in 1..Len(err.items) : Chosen(err.items[i]) # 0}
           IN  IF has = {}
               THEN 0
               ELSE Chosen(err.items[CHOOSE i \in has :
                                        \A j \in has : i <= j])
      [] err.k = "wrap" -> Chosen(err.items[1])
      [] OTHER -> 0

\* the errors the selection is examined on: those handed to Wrap, the
\* collector of the client as it is, and a foreign wrapper around it
SelectArgs == WrapArgs \cup {Coll(errs), Wrapped(1, Coll(errs))}

\* C30: Wrap(err) returns the Composite Error of err in chain order and
\* changes nothing when there is one, and only when there is none a new
\* Error with the cause err, status 500, no code, message or details, an
\* empty context and the stack of the call site, or the given frames when
\* there are any; errors.As for a Composite Error, which makes the
\* selection, finds that same error in every error examined.
C30_WrapSelection ==
    [][/\ (ret'.op = "Wrap" /\ calls' # calls) =>
             IF Chosen(ret'.err) # 0
             THEN /\ ret'.res = Chosen(ret'.err)
                  /\ heap' = heap
             ELSE /\ ret'.res = Len(heap) + 1
                  /\ \E frames \in FrameArgs :
                        heap' = Append(heap,
                                  NewError(0, 500, "", NilSlice,
                                           IF frames = <<>>
                                           THEN NewStackTrace(Site)
                                           ELSE StackOf(frames),
                                           MapOf(EmptyMap), ret'.err))
       /\ (\A err \in SelectArgs :
              ErrorsAs(err, "ptr", {})
                = IF Chosen(err) = 0
                  THEN AsResult("no", NilErr)
                  ELSE AsResult("ok", Ptr(Chosen(err))))']_vars

\* Wrap was called on a collector of two Composite Errors, the later
\* created one first, and returned that one; the collector of the client
\* holds two Composite Errors too
C30_Witness ==
    /\ ret.op = "Wrap"
    /\ ret.err = Coll(<<Ptr(2), Ptr(1)>>)
    /\ ret.res = 2
    /\ Len(heap) = 2
    /\ errs = <<Ptr(2)>>

====
